---- MODULE Spec2Model ----
(***************************************************************************)
(* A model of the openssh-sftp-protocol codec: the attribute codec, the    *)
(* timestamps and the arena boxes (file_attrs.rs), the response decoder    *)
(* and the version handshake (response.rs), the request encoder            *)
(* (request.rs), the open options (open_options.rs) and the extension      *)
(* pairs (extensions.rs).                                                  *)
(*                                                                         *)
(* The wire is a sequence of bytes (0..255).  Integers are TLC integers,   *)
(* so a u32 VALUE of the model is below 2^31; the attribute flags word,    *)
(* whose bit 31 is SSH_FILEXFER_ATTR_EXTENDED, is therefore read from its  *)
(* four big-endian bytes and never turned into one integer.  A u64 is      *)
(* held at full width as its four 16-bit limbs, most significant first.    *)
(*                                                                         *)
(* Option<T> is a sequence: None is <<>> and Some(x) is <<x>>.             *)
(* Result<T, E> is a record: [ok |-> TRUE, val, rest] (rest: the unread    *)
(* input) or [ok |-> FALSE, err].                                          *)
(***************************************************************************)
EXTENDS Integers, Sequences, FiniteSets, TLC

VARIABLES
    attrs,   \* the FileAttrs value the caller holds
    ser,     \* the bytes the caller's ssh_format serializer has accumulated
    call,    \* the most recent call: [op |-> name, arg |-> its argument]
    ret,     \* what that call returned
    arena,   \* the process-wide arena of FileAttrsBox: its cell and its slots
    boxes,   \* each FileAttrsBox: its slot (0 when not live), the box it was cloned from
    threads  \* where each thread is in FileAttrsBox::new or clone

vars == <<attrs, ser, call, ret, arena, boxes, threads>>

None == <<>>
Some(x) == <<x>>

Ok(v, rest) == [ok |-> TRUE, val |-> v, rest |-> rest]
Err(e) == [ok |-> FALSE, err |-> e]
\* serde::de::Error::invalid_value(unexpected, expected)
InvalidValue(expected) == [ok |-> FALSE, err |-> "InvalidValue", expected |-> expected]

\* serde::de::Error::invalid_length(len, expected)
InvalidLength(len, expected) ==
    [ok |-> FALSE, err |-> "InvalidLength", len |-> len, expected |-> expected]
Unit == [ok |-> TRUE, val |-> "()", rest |-> <<>>]

\* The `?` operator: an error is returned at once, a success is handed on.
Try(r, K(_)) == IF r.ok THEN K(r) ELSE r

(***************************************************************************)
(* Bit operations on naturals below 2^31.                                  *)
(***************************************************************************)
RECURSIVE BitAnd(_, _)
BitAnd(a, b) ==
    IF a = 0 \/ b = 0 THEN 0
    ELSE (a % 2) * (b % 2) + 2 * BitAnd(a \div 2, b \div 2)

BitOr(a, b) == a + b - BitAnd(a, b)

\* a & !b
BitClear(a, b) == a - BitAnd(a, b)

(***************************************************************************)
(* The primitive codec (ssh_format): big-endian integers, length-prefixed  *)
(* byte strings, tuples as the concatenation of their elements.            *)
(***************************************************************************)
U8(n) == <<n>>

U32(n) == <<(n \div 16777216) % 256, (n \div 65536) % 256, (n \div 256) % 256, n % 256>>

\* The u64 of an integer below 2^31, as four 16-bit limbs.
u64_from(n) == <<0, 0, n \div 65536, n % 65536>>

\* The eight bytes of a u64, most significant first.
U64(n) ==
    <<n[1] \div 256, n[1] % 256, n[2] \div 256, n[2] % 256,
      n[3] \div 256, n[3] % 256, n[4] \div 256, n[4] % 256>>

Bytes(s) == U32(Len(s)) \o s

Drop(b, n) == SubSeq(b, n + 1, Len(b))

Take(b, n) == SubSeq(b, 1, n)

GetU8(b) == IF Len(b) < 1 THEN Err("Eof") ELSE Ok(b[1], Drop(b, 1))

\* The four bytes of a u32, most significant first.
GetWord(b) == IF Len(b) < 4 THEN Err("Eof") ELSE Ok(Take(b, 4), Drop(b, 4))

WordVal(w) == ((w[1] * 256 + w[2]) * 256 + w[3]) * 256 + w[4]

GetU32(b) == IF Len(b) < 4 THEN Err("Eof") ELSE Ok(WordVal(Take(b, 4)), Drop(b, 4))

\* A u64 read from its eight bytes, most significant first.
GetU64(b) ==
    IF Len(b) < 8 THEN Err("Eof")
    ELSE Ok(<<b[1] * 256 + b[2], b[3] * 256 + b[4], b[5] * 256 + b[6], b[7] * 256 + b[8]>>,
            Drop(b, 8))

GetBytes(b) ==
    Try(GetU32(b), LAMBDA n :
        IF Len(n.rest) < n.val THEN Err("Eof")
        ELSE Ok(Take(n.rest, n.val), Drop(n.rest, n.val)))

WordAnd(w, m) == [i \in 1..4 |-> BitAnd(w[i], m[i])]

\* The byte at i is within lo..hi; a continuation byte is within 128..191.
Utf8In(s, i, lo, hi) == i <= Len(s) /\ s[i] >= lo /\ s[i] <= hi

Utf8Cont(s, i) == Utf8In(s, i, 128, 191)

\* core::str::from_utf8 from the byte at i on: whether the rest is well-formed.
RECURSIVE Utf8From(_, _)
Utf8From(s, i) ==
    IF i > Len(s) THEN TRUE
    ELSE IF s[i] < 128 THEN Utf8From(s, i + 1)
    ELSE IF s[i] >= 194 /\ s[i] <= 223 THEN Utf8Cont(s, i + 1) /\ Utf8From(s, i + 2)
    ELSE IF s[i] = 224
         THEN Utf8In(s, i + 1, 160, 191) /\ Utf8Cont(s, i + 2) /\ Utf8From(s, i + 3)
    ELSE IF s[i] = 237
         THEN Utf8In(s, i + 1, 128, 159) /\ Utf8Cont(s, i + 2) /\ Utf8From(s, i + 3)
    ELSE IF s[i] >= 225 /\ s[i] <= 239
         THEN Utf8Cont(s, i + 1) /\ Utf8Cont(s, i + 2) /\ Utf8From(s, i + 3)
    ELSE IF s[i] = 240
         THEN /\ Utf8In(s, i + 1, 144, 191) /\ Utf8Cont(s, i + 2) /\ Utf8Cont(s, i + 3)
              /\ Utf8From(s, i + 4)
    ELSE IF s[i] >= 241 /\ s[i] <= 243
         THEN /\ Utf8Cont(s, i + 1) /\ Utf8Cont(s, i + 2) /\ Utf8Cont(s, i + 3)
              /\ Utf8From(s, i + 4)
    ELSE IF s[i] = 244
         THEN /\ Utf8In(s, i + 1, 128, 143) /\ Utf8Cont(s, i + 2) /\ Utf8Cont(s, i + 3)
              /\ Utf8From(s, i + 4)
    ELSE FALSE

\* core::str::from_utf8: whether the bytes are well-formed UTF-8.
IsUtf8(s) == Utf8From(s, 1)

\* A str (or Path) element: a byte string that must be UTF-8.
GetStr(b) ==
    Try(GetBytes(b), LAMBDA r : IF ~IsUtf8(r.val) THEN Err("InvalidStr") ELSE r)

(***************************************************************************)
(* constants: the attribute flag masks of the wire (u32) and the POSIX     *)
(* mode bits (libc).                                                       *)
(***************************************************************************)
SSH_FILEXFER_ATTR_SIZE == 1
SSH_FILEXFER_ATTR_UIDGID == 2
SSH_FILEXFER_ATTR_PERMISSIONS == 4
SSH_FILEXFER_ATTR_ACMODTIME == 8
\* 0x80000000, as the big-endian bytes of the u32
SSH_FILEXFER_ATTR_EXTENDED == <<128, 0, 0, 0>>

\* 0o170000
S_IFMT == 61440
\* 0o140000
S_IFSOCK == 49152
\* 0o120000
S_IFLNK == 40960
\* 0o100000
S_IFREG == 32768
\* 0o060000
S_IFBLK == 24576
\* 0o040000
S_IFDIR == 16384
\* 0o020000
S_IFCHR == 8192
\* 0o010000
S_IFIFO == 4096

\* The union of the twelve bits Permissions names: 0o7777.
Permissions_all == 4095

from_bits_truncate(bits) == BitAnd(bits, Permissions_all)

\* FileType::from_u32: Some(variant) for the seven discriminants, else None.
FileType_from_u32(n) ==
    CASE n = S_IFSOCK -> Some("Socket")
      [] n = S_IFLNK -> Some("Symlink")
      [] n = S_IFREG -> Some("RegularFile")
      [] n = S_IFBLK -> Some("BlockDevice")
      [] n = S_IFDIR -> Some("Directory")
      [] n = S_IFCHR -> Some("CharacterDevice")
      [] n = S_IFIFO -> Some("FIFO")
      [] OTHER -> None

(***************************************************************************)
(* FileAttrsFlags: the in-memory presence bits (a u8).                     *)
(***************************************************************************)
FLAG_SIZE == 1
FLAG_ID == 2
FLAG_PERMISSIONS == 4
FLAG_TIME == 8
FLAG_EXTENSIONS == 16

intersects(flags, flag) == BitAnd(flags, flag) # 0

\* FileAttrsFlags_wire with the TIME flag written as the PERMISSIONS mask.
FileAttrsFlags_wire_time_as_permissions(flags) ==
    LET f1 == IF intersects(flags, FLAG_SIZE) THEN SSH_FILEXFER_ATTR_SIZE ELSE 0
        f2 == IF intersects(flags, FLAG_ID) THEN BitOr(f1, SSH_FILEXFER_ATTR_UIDGID) ELSE f1
        f3 == IF intersects(flags, FLAG_PERMISSIONS)
              THEN BitOr(f2, SSH_FILEXFER_ATTR_PERMISSIONS) ELSE f2
        f4 == IF intersects(flags, FLAG_TIME)
              THEN BitOr(f3, SSH_FILEXFER_ATTR_PERMISSIONS) ELSE f3
    IN  f4

\* impl Serialize for FileAttrsFlags: the u32 flags word.
FileAttrsFlags_wire(flags) ==
    LET f1 == IF intersects(flags, FLAG_SIZE) THEN SSH_FILEXFER_ATTR_SIZE ELSE 0
        f2 == IF intersects(flags, FLAG_ID) THEN BitOr(f1, SSH_FILEXFER_ATTR_UIDGID) ELSE f1
        f3 == IF intersects(flags, FLAG_PERMISSIONS)
              THEN BitOr(f2, SSH_FILEXFER_ATTR_PERMISSIONS) ELSE f2
        f4 == IF intersects(flags, FLAG_TIME)
              THEN BitOr(f3, SSH_FILEXFER_ATTR_ACMODTIME) ELSE f3
    IN  f4

FileAttrsFlags_serialize(flags) == U32(FileAttrsFlags_wire(flags))

\* impl Deserialize for FileAttrsFlags: reads the u32, tests the five masks.
\* body & mask != 0
WordHas(w, mask) == WordAnd(w, mask) # <<0, 0, 0, 0>>

FileAttrsFlags_deserialize(b) ==
    Try(GetWord(b), LAMBDA w :
        Ok((IF WordHas(w.val, U32(SSH_FILEXFER_ATTR_SIZE)) THEN FLAG_SIZE ELSE 0)
           + (IF WordHas(w.val, U32(SSH_FILEXFER_ATTR_UIDGID)) THEN FLAG_ID ELSE 0)
           + (IF WordHas(w.val, U32(SSH_FILEXFER_ATTR_PERMISSIONS))
              THEN FLAG_PERMISSIONS ELSE 0)
           + (IF WordHas(w.val, U32(SSH_FILEXFER_ATTR_ACMODTIME)) THEN FLAG_TIME ELSE 0)
           + (IF WordHas(w.val, SSH_FILEXFER_ATTR_EXTENDED) THEN FLAG_EXTENSIONS ELSE 0),
           w.rest))

(***************************************************************************)
(* UnixTimeStamp(u32).  from_raw is None only where SystemTime cannot hold *)
(* UNIX_EPOCH + elapsed; with a 64-bit time it holds every u32.            *)
(***************************************************************************)
from_raw(elapsed) == Some(elapsed)

into_raw(t) == t

(***************************************************************************)
(* FileAttrs.                                                              *)
(***************************************************************************)
FileAttrs_new ==
    [flags |-> 0, size |-> u64_from(0), uid |-> 0, gid |-> 0, st_mode |-> 0, atime |-> 0, mtime |-> 0]

set_size(a, size) == [a EXCEPT !.flags = BitOr(a.flags, FLAG_SIZE), !.size = size]

set_id(a, uid, gid) == [a EXCEPT !.flags = BitOr(a.flags, FLAG_ID), !.uid = uid, !.gid = gid]

\* set_permissions keeping the permission bits already in st_mode.
set_permissions_keep_old(a, permissions) ==
    [a EXCEPT !.flags = BitOr(a.flags, FLAG_PERMISSIONS),
              !.st_mode = BitOr(a.st_mode, permissions)]

\* set_permissions replacing the whole mode word.
set_permissions_drop_filetype(a, permissions) ==
    [a EXCEPT !.flags = BitOr(a.flags, FLAG_PERMISSIONS), !.st_mode = permissions]

set_permissions(a, permissions) ==
    LET filetype == BitAnd(a.st_mode, S_IFMT) IN
    [a EXCEPT !.flags = BitOr(a.flags, FLAG_PERMISSIONS),
              !.st_mode = BitOr(filetype, permissions)]

\* set_time assigning the TIME flag in the place of or-ing it in.
set_time_assigns_flags(a, atime, mtime) ==
    [a EXCEPT !.flags = FLAG_TIME, !.atime = atime, !.mtime = mtime]

set_time(a, atime, mtime) ==
    [a EXCEPT !.flags = BitOr(a.flags, FLAG_TIME), !.atime = atime, !.mtime = mtime]

has_attr(a, flag) == intersects(a.flags, flag)

get_size(a) == IF has_attr(a, FLAG_SIZE) THEN Some(a.size) ELSE None

get_id(a) == IF has_attr(a, FLAG_ID) THEN Some(<<a.uid, a.gid>>) ELSE None

get_permissions(a) ==
    IF has_attr(a, FLAG_PERMISSIONS) THEN Some(from_bits_truncate(a.st_mode)) ELSE None

\* "panic" stands for the unwrap of FileType::from_u32 on an invalid file type.
get_filetype(a) ==
    IF has_attr(a, FLAG_PERMISSIONS)
    THEN LET filetype == BitAnd(a.st_mode, S_IFMT) IN
         IF filetype = 0 THEN None
         ELSE IF FileType_from_u32(filetype) = None THEN Some("panic")
         ELSE FileType_from_u32(filetype)
    ELSE None

get_time(a) == IF has_attr(a, FLAG_TIME) THEN Some(<<a.atime, a.mtime>>) ELSE None

\* FileAttrs_eq without the comparison of the file types.
FileAttrs_eq_without_filetype(a, b) ==
    /\ get_size(a) = get_size(b)
    /\ get_id(a) = get_id(b)
    /\ get_permissions(a) = get_permissions(b)
    /\ get_time(a) = get_time(b)

\* impl PartialEq for FileAttrs
FileAttrs_eq(a, b) ==
    /\ get_size(a) = get_size(b)
    /\ get_id(a) = get_id(b)
    /\ get_permissions(a) = get_permissions(b)
    /\ get_filetype(a) = get_filetype(b)
    /\ get_time(a) = get_time(b)

\* impl Serialize for FileAttrs
FileAttrs_serialize(a) ==
    FileAttrsFlags_serialize(a.flags)
    \o (IF get_size(a) # None THEN U64(get_size(a)[1]) ELSE <<>>)
    \o (IF get_id(a) # None THEN U32(get_id(a)[1][1]) \o U32(get_id(a)[1][2]) ELSE <<>>)
    \o (IF get_permissions(a) # None THEN U32(get_permissions(a)[1]) ELSE <<>>)
    \o (IF get_time(a) # None
        THEN U32(into_raw(get_time(a)[1][1])) \o U32(into_raw(get_time(a)[1][2]))
        ELSE <<>>)

(***************************************************************************)
(* FileAttrVisitor: the flags word first, then the fields it announces, in *)
(* order.  Each step takes and returns a Result whose val is the FileAttrs *)
(* built so far; an error ends the decoding (the `?` of the source).       *)
(***************************************************************************)
ReadFlags(b) ==
    Try(FileAttrsFlags_deserialize(b), LAMBDA r :
        Ok([FileAttrs_new EXCEPT !.flags = r.val], r.rest))

ReadSize(st) ==
    IF ~st.ok \/ ~has_attr(st.val, FLAG_SIZE) THEN st
    ELSE Try(GetU64(st.rest), LAMBDA r : Ok([st.val EXCEPT !.size = r.val], r.rest))

ReadId(st) ==
    IF ~st.ok \/ ~has_attr(st.val, FLAG_ID) THEN st
    ELSE Try(GetU32(st.rest), LAMBDA u :
         Try(GetU32(u.rest), LAMBDA g :
             Ok([st.val EXCEPT !.uid = u.val, !.gid = g.val], g.rest)))

\* The file type of a mode word is absent or one of the seven of POSIX.
\* ValidFileType letting every file type through.
ValidFileType_any(filetype) == TRUE

\* ValidFileType checking the range of the subfield only.
ValidFileType_within_mask(filetype) == filetype <= S_IFMT

ValidFileType(filetype) == filetype = 0 \/ FileType_from_u32(filetype) # None

ReadPermissions(st) ==
    IF ~st.ok \/ ~has_attr(st.val, FLAG_PERMISSIONS) THEN st
    ELSE Try(GetU32(st.rest), LAMBDA m :
             IF ~ValidFileType(BitAnd(m.val, S_IFMT))
             THEN InvalidValue("Expected valid filetype specified in POSIX")
             ELSE Ok([st.val EXCEPT !.st_mode = m.val], m.rest))

into_timestamp(elapsed) ==
    IF from_raw(elapsed) = None THEN InvalidValue("Invalid UnixTimeStamp (seconds)")
    ELSE Ok(from_raw(elapsed)[1], <<>>)

ReadTime(st) ==
    IF ~st.ok \/ ~has_attr(st.val, FLAG_TIME) THEN st
    ELSE Try(GetU32(st.rest), LAMBDA a :
         Try(into_timestamp(a.val), LAMBDA atime :
         Try(GetU32(a.rest), LAMBDA m :
         Try(into_timestamp(m.val), LAMBDA mtime :
             Ok([st.val EXCEPT !.atime = atime.val, !.mtime = mtime.val], m.rest)))))

\* SkipExtensionPairs reading one byte string per pair.
RECURSIVE SkipExtensionNames(_, _)
SkipExtensionNames(b, n) ==
    IF n = 0 THEN Ok("()", b)
    ELSE Try(GetBytes(b), LAMBDA name : SkipExtensionNames(name.rest, n - 1))

\* for _i in 0..extension_pairs { name; value }
RECURSIVE SkipExtensionPairs(_, _)
SkipExtensionPairs(b, n) ==
    IF n = 0 THEN Ok("()", b)
    ELSE Try(GetBytes(b), LAMBDA name :
         Try(GetBytes(name.rest), LAMBDA value :
             SkipExtensionPairs(value.rest, n - 1)))

ReadExtensions(st) ==
    IF ~st.ok \/ ~has_attr(st.val, FLAG_EXTENSIONS) THEN st
    ELSE Try(GetU32(st.rest), LAMBDA extension_pairs :
         Try(SkipExtensionPairs(extension_pairs.rest, extension_pairs.val), LAMBDA r :
             Ok(st.val, r.rest)))

\* attrs.flags.remove(FileAttrsFlags::EXTENSIONS)
RemoveExtensionsFlag(st) ==
    IF ~st.ok THEN st
    ELSE Ok([st.val EXCEPT !.flags = BitClear(st.val.flags, FLAG_EXTENSIONS)], st.rest)

FileAttrs_deserialize(b) ==
    RemoveExtensionsFlag(
        ReadExtensions(ReadTime(ReadPermissions(ReadId(ReadSize(ReadFlags(b)))))))

(***************************************************************************)
(* Inputs of the attribute codec.                                          *)
(***************************************************************************)
\* The most extension pairs a generated attrs block carries.
MaxExtPairs == 2

SizeValues == {u64_from(0), u64_from(2333)}
IdValues == {<<0, 0>>, <<1000, 2147483647>>}
\* WRITE_BY_OTHER; SET_UID | rwxr-xr-x; nothing
PermValues == {2, 2541, 0}
TimeValues == {<<0, 0>>, <<2, 150>>}

\* Mode words a server may send: permissions alone, Socket, RegularFile and
\* Directory with permissions, file types 0o030000 and 0o170000 (not POSIX
\* types), and a mode with bit 16 set (outside S_IFMT and Permissions).
WireModes == {2, S_IFSOCK + 2, S_IFREG + 420, S_IFDIR + 493, 12288 + 420, S_IFMT, 65536 + 420}

\* Extension pairs (name, value); the second name reads as a length prefix.
ExtPairs == { << <<97>>, <<>> >>, << <<0, 0, 0, 1>>, <<98, 99>> >> }

SeqsUpTo(S, n) == UNION {[1..k -> S] : k \in 0..n}

\* Bytes that follow the attrs in the packet; the second reads as one more string.
Trailers == {<<>>, <<0, 0, 0, 1, 97>>}

\* What a server puts on the wire: the fields present, the extension pairs (None:
\* EXTENDED bit clear), unassigned flag bits (junk), and what follows the attrs.
WireAttrs ==
    [size : {None, Some(u64_from(2333)), Some(<<65280, 0, 1, 5>>)},
     id : {None, Some(<<1000, 2147483647>>)},
     mode : {None} \cup {Some(m) : m \in WireModes},
     time : {None, Some(<<2, 150>>)},
     ext : {None} \cup {Some(l) : l \in SeqsUpTo(ExtPairs, MaxExtPairs)},
     junk : BOOLEAN,
     trailer : Trailers]

RECURSIVE WireExtPairs(_)
WireExtPairs(l) ==
    IF l = <<>> THEN <<>>
    ELSE Bytes(l[1][1]) \o Bytes(l[1][2]) \o WireExtPairs(Tail(l))

WireFlags(g) ==
    << (IF g.ext # None THEN 128 ELSE 0) + (IF g.junk THEN 64 ELSE 0), 0, 0,
       (IF g.size # None THEN 1 ELSE 0) + (IF g.id # None THEN 2 ELSE 0)
       + (IF g.mode # None THEN 4 ELSE 0) + (IF g.time # None THEN 8 ELSE 0)
       + (IF g.junk THEN 32 ELSE 0) >>

\* The attrs block alone.
WireAttrsBlock(g) ==
    WireFlags(g)
    \o (IF g.size # None THEN U64(g.size[1]) ELSE <<>>)
    \o (IF g.id # None THEN U32(g.id[1][1]) \o U32(g.id[1][2]) ELSE <<>>)
    \o (IF g.mode # None THEN U32(g.mode[1]) ELSE <<>>)
    \o (IF g.time # None THEN U32(g.time[1][1]) \o U32(g.time[1][2]) ELSE <<>>)
    \o (IF g.ext # None THEN U32(Len(g.ext[1])) \o WireExtPairs(g.ext[1]) ELSE <<>>)

WireAttrsBytes(g) == WireAttrsBlock(g) \o g.trailer

PosixTypes == {S_IFSOCK, S_IFLNK, S_IFREG, S_IFBLK, S_IFDIR, S_IFCHR, S_IFIFO}

WireModeValid(g) == g.mode = None \/ BitAnd(g.mode[1], S_IFMT) \in PosixTypes \cup {0}

(***************************************************************************)
(* The life of a FileAttrs value: made by new() or by decoding a server's  *)
(* attrs, then changed by the setters and serialized.                      *)
(***************************************************************************)
\* The most slots of the arena in use at a time, and so the most live boxes.
MaxSlots == 2

Threads == {1, 2}

Slots == 1..MaxSlots

BoxIds == 1..MaxSlots

\* static ARENA: OnceCell<SharedArena<FileAttrs>> = OnceCell::new(): the cell is
\* empty, SharedArena::new has run 0 times, no slot is in use.
ARENA ==
    [cell |-> "empty", inits |-> 0, used |-> {}, mem |-> [slot \in Slots |-> FileAttrs_new]]

\* A thread in none of the calls; de is the Response::deserialize a thread is
\* inside, if any.
Idle == [pc |-> "idle", val |-> FileAttrs_new, src |-> 0, de |-> None]

NoBox == [slot |-> 0, from |-> 0]

Init ==
    /\ attrs = FileAttrs_new
    /\ ser = <<>>
    /\ call = [op |-> "new", arg |-> <<>>]
    /\ ret = Ok(FileAttrs_new, <<>>)
    /\ arena = ARENA
    /\ boxes = [b \in BoxIds |-> NoBox]
    /\ threads = [t \in Threads |-> Idle]

Deserialize(g) ==
    /\ call.op = "new"
    /\ LET r == FileAttrs_deserialize(WireAttrsBytes(g)) IN
       /\ attrs' = IF r.ok THEN r.val ELSE attrs
       /\ ret' = r
    /\ call' = [op |-> "deserialize", arg |-> g]
    /\ UNCHANGED <<ser, arena, boxes, threads>>

SetSize(size) ==
    /\ attrs' = set_size(attrs, size)
    /\ call' = [op |-> "set_size", arg |-> size]
    /\ ret' = Unit
    /\ UNCHANGED <<ser, arena, boxes, threads>>

SetId(id) ==
    /\ attrs' = set_id(attrs, id[1], id[2])
    /\ call' = [op |-> "set_id", arg |-> id]
    /\ ret' = Unit
    /\ UNCHANGED <<ser, arena, boxes, threads>>

SetPermissions(permissions) ==
    /\ attrs' = set_permissions(attrs, permissions)
    /\ call' = [op |-> "set_permissions", arg |-> permissions]
    /\ ret' = Unit
    /\ UNCHANGED <<ser, arena, boxes, threads>>

SetTime(t) ==
    /\ attrs' = set_time(attrs, t[1], t[2])
    /\ call' = [op |-> "set_time", arg |-> t]
    /\ ret' = Unit
    /\ UNCHANGED <<ser, arena, boxes, threads>>

Serialize ==
    /\ call' = [op |-> "serialize", arg |-> attrs]
    /\ ret' = Ok(FileAttrs_serialize(attrs), <<>>)
    /\ UNCHANGED <<attrs, ser, arena, boxes, threads>>

Next ==
    \/ \E g \in WireAttrs : Deserialize(g)
    \/ \E size \in SizeValues : SetSize(size)
    \/ \E id \in IdValues : SetId(id)
    \/ \E permissions \in PermValues : SetPermissions(permissions)
    \/ \E t \in TimeValues : SetTime(t)
    \/ Serialize

Spec == Init /\ [][Next]_vars

(***************************************************************************)
(* Claims about the attribute codec.                                       *)
(***************************************************************************)
RoundTrip(a) == FileAttrs_deserialize(FileAttrs_serialize(a))

\* C1: for every FileAttrs value a, with or without file-type bits in its
\* mode, decoding the encoding of a succeeds and yields a value equal to a.
C1_RoundTripEveryValue ==
    RoundTrip(attrs).ok /\ FileAttrs_eq(RoundTrip(attrs).val, attrs)

\* What the round trip does keep: decoding the encoding of a succeeds, consumes
\* all of it and yields a value with the same size, uid/gid, permissions and
\* atime/mtime as a and no file type, equal to a whenever a holds no file type.
RoundTripWithoutFileType ==
    LET d == RoundTrip(attrs) IN
    /\ d.ok
    /\ d.rest = <<>>
    /\ get_size(d.val) = get_size(attrs)
    /\ get_id(d.val) = get_id(attrs)
    /\ get_permissions(d.val) = get_permissions(attrs)
    /\ get_time(d.val) = get_time(attrs)
    /\ get_filetype(d.val) = None
    /\ (get_filetype(attrs) = None => FileAttrs_eq(d.val, attrs))

Present(o) == IF o # None THEN 1 ELSE 0

\* C2: the encoding of a FileAttrs is the flags word, whose SIZE, UIDGID,
\* PERMISSIONS and ACMODTIME bits are set exactly for the present fields and whose
\* other bits (EXTENDED too) are clear, followed by exactly the present fields in
\* the order size, uid, gid, mode, atime, mtime; the default value encodes to
\* 00 00 00 00.
C2_FlagsIffFieldsInOrder ==
    LET w == FileAttrs_serialize(attrs)
        s == Present(get_size(attrs))
        i == Present(get_id(attrs))
        p == Present(get_permissions(attrs))
        t == Present(get_time(attrs))
        off_id == 4 + 8 * s
        off_mode == off_id + 8 * i
        off_time == off_mode + 4 * p
        word(off) == WordVal(SubSeq(w, off + 1, off + 4))
    IN  /\ Len(w) = 4 + 8 * s + 8 * i + 4 * p + 8 * t
        /\ Take(w, 4) = <<0, 0, 0, s + 2 * i + 4 * p + 8 * t>>
        /\ s = 1 => \A k \in 1..4 : w[3 + 2 * k] * 256 + w[4 + 2 * k] = attrs.size[k]
        /\ i = 1 => word(off_id) = attrs.uid /\ word(off_id + 4) = attrs.gid
        /\ p = 1 => word(off_mode) = BitAnd(attrs.st_mode, 4095)
        /\ t = 1 => word(off_time) = attrs.atime /\ word(off_time + 4) = attrs.mtime
        /\ attrs = FileAttrs_new => w = <<0, 0, 0, 0>>

\* A value with the four fields present has been serialized to 32 bytes under the
\* flags word 00 00 00 0F.
C2_Witness ==
    /\ call.op = "serialize"
    /\ Len(ret.val) = 32
    /\ Take(ret.val, 4) = <<0, 0, 0, 15>>
    /\ attrs.atime # attrs.mtime

\* C3: decoding an attrs block whose flags word has the EXTENDED bit, followed by
\* the pair count N and N (name, value) pairs, succeeds, leaves unread exactly the
\* bytes that follow the 2N strings, and returns a value without the EXTENSIONS
\* flag whose encoding has no EXTENDED bit and holds the flags word and the
\* present fields only.
C3_ExtendedPairsConsumed ==
    (call.op = "deserialize" /\ call.arg.ext # None /\ WireModeValid(call.arg)) =>
        /\ ret.ok
        /\ ret.rest = call.arg.trailer
        /\ ~has_attr(ret.val, FLAG_EXTENSIONS)
        /\ FileAttrs_serialize(ret.val)[1] < 128
        /\ Len(FileAttrs_serialize(ret.val)) =
               4 + 8 * Present(call.arg.size) + 8 * Present(call.arg.id)
                 + 4 * Present(call.arg.mode) + 8 * Present(call.arg.time)

\* An attrs block with two extension pairs and bytes after them has been decoded.
C3_Witness ==
    /\ call.op = "deserialize"
    /\ call.arg.ext # None
    /\ Len(call.arg.ext[1]) = 2
    /\ call.arg.trailer # <<>>
    /\ ret.ok
    /\ ret.rest = call.arg.trailer

(***************************************************************************)
(* The response decoder (response.rs).                                     *)
(* constants: the packet types and the status codes.                       *)
(***************************************************************************)
SSH_FXP_STATUS == 101
SSH_FXP_HANDLE == 102
SSH_FXP_DATA == 103
SSH_FXP_NAME == 104
SSH_FXP_ATTRS == 105

SSH_FX_OK == 0
SSH_FX_EOF == 1
SSH_FX_NO_SUCH_FILE == 2
SSH_FX_PERMISSION_DENIED == 3
SSH_FX_FAILURE == 4
SSH_FX_BAD_MESSAGE == 5
SSH_FX_NO_CONNECTION == 6
SSH_FX_CONNECTION_LOST == 7
SSH_FX_OP_UNSUPPORTED == 8

\* enum StatusCode { Success, Failure(ErrorCode) }
Success == <<"Success">>
Failure(code) == <<"Failure", code>>

\* StatusCode_deserialize with every unknown code read as Failure(Failure).
StatusCode_deserialize_lenient(b) ==
    Try(GetU32(b), LAMBDA discriminant :
        CASE discriminant.val = SSH_FX_OK -> Ok(Success, discriminant.rest)
          [] discriminant.val = SSH_FX_EOF -> Ok(Failure("Eof"), discriminant.rest)
          [] discriminant.val = SSH_FX_NO_SUCH_FILE ->
                 Ok(Failure("NoSuchFile"), discriminant.rest)
          [] discriminant.val = SSH_FX_PERMISSION_DENIED ->
                 Ok(Failure("PermDenied"), discriminant.rest)
          [] discriminant.val = SSH_FX_FAILURE -> Ok(Failure("Failure"), discriminant.rest)
          [] discriminant.val = SSH_FX_BAD_MESSAGE ->
                 Ok(Failure("BadMessage"), discriminant.rest)
          [] discriminant.val = SSH_FX_OP_UNSUPPORTED ->
                 Ok(Failure("OpUnsupported"), discriminant.rest)
          [] OTHER -> Ok(Failure("Failure"), discriminant.rest))

\* impl Deserialize for StatusCode
StatusCode_deserialize(b) ==
    Try(GetU32(b), LAMBDA discriminant :
        CASE discriminant.val = SSH_FX_OK -> Ok(Success, discriminant.rest)
          [] discriminant.val = SSH_FX_EOF -> Ok(Failure("Eof"), discriminant.rest)
          [] discriminant.val = SSH_FX_NO_SUCH_FILE ->
                 Ok(Failure("NoSuchFile"), discriminant.rest)
          [] discriminant.val = SSH_FX_PERMISSION_DENIED ->
                 Ok(Failure("PermDenied"), discriminant.rest)
          [] discriminant.val = SSH_FX_FAILURE -> Ok(Failure("Failure"), discriminant.rest)
          [] discriminant.val = SSH_FX_BAD_MESSAGE ->
                 Ok(Failure("BadMessage"), discriminant.rest)
          [] discriminant.val = SSH_FX_OP_UNSUPPORTED ->
                 Ok(Failure("OpUnsupported"), discriminant.rest)
          [] discriminant.val \in {SSH_FX_NO_CONNECTION, SSH_FX_CONNECTION_LOST} ->
                 InvalidValue("Server MUST NOT return SSH_FX_NO_CONNECTION or SSH_FX_CONNECTION_LOST for they are pseudo-error that can only be generated locally.")
          [] OTHER -> InvalidValue("Invalid status code"))

\* struct ErrMsg(TwoStrs): the message, then the language tag.
ErrMsg_deserialize(b) ==
    Try(GetStr(b), LAMBDA msg :
    Try(GetStr(msg.rest), LAMBDA tag : Ok(<<msg.val, tag.val>>, tag.rest)))

\* The process ends: the allocator refused the request (handle_alloc_error), or
\* the capacity in bytes is beyond isize::MAX (panic "capacity overflow").
Abort(message) == [ok |-> FALSE, err |-> "abort", message |-> message]

\* Vec::<NameEntry>::with_capacity(len).  A capacity of 0 allocates nothing;
\* any other is a request to the allocator, and granted says whether it
\* grants it.  When it does not, the process aborts.
with_capacity(len, granted) ==
    IF len > 0 /\ ~granted
    THEN Abort("memory allocation failed")
    ELSE Ok(<<>>, <<>>)

\* struct NameEntry { filename, longname, attrs }
NameEntry_deserialize(b) ==
    Try(GetStr(b), LAMBDA filename :
    Try(GetStr(filename.rest), LAMBDA longname :
    Try(FileAttrs_deserialize(longname.rest), LAMBDA a :
        Ok([filename |-> filename.val, longname |-> longname.val, attrs |-> a.val],
           a.rest))))

\* NameEntries putting each entry before those already read.
RECURSIVE NameEntries_newest_first(_, _, _)
NameEntries_newest_first(b, len, entries) ==
    IF len = 0 THEN Ok(entries, b)
    ELSE Try(NameEntry_deserialize(b), LAMBDA e :
             NameEntries_newest_first(e.rest, len - 1, <<e.val>> \o entries))

\* for _ in 0..len { entries.push(iter.get_next()?) }
RECURSIVE NameEntries(_, _, _)
NameEntries(b, len, entries) ==
    IF len = 0 THEN Ok(entries, b)
    ELSE Try(NameEntry_deserialize(b), LAMBDA e :
             NameEntries(e.rest, len - 1, Append(entries, e.val)))

\* ResponseInner_deserialize reading the data of a Data response as a byte string.
ResponseInner_deserialize_data_read(discriminant, b, granted) ==
    CASE discriminant = SSH_FXP_STATUS ->
           Try(StatusCode_deserialize(b), LAMBDA status_code :
           Try(ErrMsg_deserialize(status_code.rest), LAMBDA err_msg :
               Ok([kind |-> "Status", status_code |-> status_code.val,
                   err_msg |-> err_msg.val], err_msg.rest)))
      [] discriminant = SSH_FXP_HANDLE ->
           Try(GetBytes(b), LAMBDA handle :
               Ok([kind |-> "Handle", handle |-> handle.val], handle.rest))
      [] discriminant = SSH_FXP_DATA ->
           Try(GetBytes(b), LAMBDA data : Ok([kind |-> "Data"], data.rest))
      [] discriminant = SSH_FXP_NAME ->
           Try(GetU32(b), LAMBDA len :
           Try(with_capacity(len.val, granted), LAMBDA vec :
           Try(NameEntries(len.rest, len.val, vec.val), LAMBDA entries :
               Ok([kind |-> "Name", entries |-> entries.val], entries.rest))))
      [] discriminant = SSH_FXP_ATTRS ->
           Try(FileAttrs_deserialize(b), LAMBDA a :
               Ok([kind |-> "Attrs", attrs |-> a.val], a.rest))
      [] OTHER -> InvalidValue("Invalid packet type")

\* The match on the packet type.
ResponseInner_deserialize(discriminant, b, granted) ==
    CASE discriminant = SSH_FXP_STATUS ->
           Try(StatusCode_deserialize(b), LAMBDA status_code :
           Try(ErrMsg_deserialize(status_code.rest), LAMBDA err_msg :
               Ok([kind |-> "Status", status_code |-> status_code.val,
                   err_msg |-> err_msg.val], err_msg.rest)))
      [] discriminant = SSH_FXP_HANDLE ->
           Try(GetBytes(b), LAMBDA handle :
               Ok([kind |-> "Handle", handle |-> handle.val], handle.rest))
      [] discriminant = SSH_FXP_DATA -> Ok([kind |-> "Data"], b)
      [] discriminant = SSH_FXP_NAME ->
           Try(GetU32(b), LAMBDA len :
           Try(with_capacity(len.val, granted), LAMBDA vec :
           Try(NameEntries(len.rest, len.val, vec.val), LAMBDA entries :
               Ok([kind |-> "Name", entries |-> entries.val], entries.rest))))
      [] discriminant = SSH_FXP_ATTRS ->
           Try(FileAttrs_deserialize(b), LAMBDA a :
               Ok([kind |-> "Attrs", attrs |-> a.val], a.rest))
      [] OTHER -> InvalidValue("Invalid packet type")

\* Response_deserialize returning the packet type in the place of the response id.
Response_deserialize_id_from_type(b, granted) ==
    Try(GetU8(b), LAMBDA discriminant :
    Try(GetU32(discriminant.rest), LAMBDA response_id :
    Try(ResponseInner_deserialize(discriminant.val, response_id.rest, granted),
        LAMBDA response_inner :
            Ok([response_id |-> discriminant.val, response_inner |-> response_inner.val],
               response_inner.rest))))

\* ResponseVisitor
Response_deserialize(b, granted) ==
    Try(GetU8(b), LAMBDA discriminant :
    Try(GetU32(discriminant.rest), LAMBDA response_id :
    Try(ResponseInner_deserialize(discriminant.val, response_id.rest, granted),
        LAMBDA response_inner :
            Ok([response_id |-> response_id.val, response_inner |-> response_inner.val],
               response_inner.rest))))

\* Response::is_data
is_data(packet_type) == packet_type = SSH_FXP_DATA

(***************************************************************************)
(* Inputs of the response decoder: what a server sends.                    *)
(***************************************************************************)
\* The most entries of a generated Name response.
MaxNameEntries == 2
\* The most bytes cut from the end of a generated packet.
MaxCut == 1

Ids == {0, 10, 16909060}

WireStatusCodes == {0, 1, 2, 3, 4, 5, 6, 7, 8, 9, 255, 65536, 2147483647}
\* "", "EOF", and a byte string that is not UTF-8
WireMsgs == {<<>>, <<69, 79, 70>>, <<255>>}
\* "", "en"
WireTags == {<<>>, <<101, 110>>}
WireHandles == {<<>>, <<170, 187>>, <<1, 2, 3, 4, 5>>}
WireData == {<<>>, <<0, 0, 0, 3, 1, 2, 3>>}

\* Attrs blocks for Attrs responses and Name entries.
WireAttrsSmall ==
    {g \in WireAttrs : /\ g.trailer = <<>>
                       /\ ~g.junk
                       /\ g.id = None
                       /\ g.time = None
                       /\ (g.ext = None \/ Len(g.ext[1]) = 1)}

WireAttrsEmpty ==
    [size |-> None, id |-> None, mode |-> None, time |-> None, ext |-> None,
     junk |-> FALSE, trailer |-> <<>>]

\* "a" with no attrs; "b" with a long name, a size, a regular file's mode and one
\* extension pair; "c" whose mode holds the file type 0o030000.
WireNameEntries ==
    { [filename |-> <<97>>, longname |-> <<>>, attrs |-> WireAttrsEmpty],
      [filename |-> <<98>>, longname |-> <<45, 114, 119>>,
       attrs |-> [WireAttrsEmpty EXCEPT !.size = Some(u64_from(2333)), !.mode = Some(S_IFREG + 420),
                                        !.ext = Some(<< << <<97>>, <<>> >> >>)]],
      [filename |-> <<99>>, longname |-> <<>>,
       attrs |-> [WireAttrsEmpty EXCEPT !.mode = Some(12288 + 420)]] }

\* Packet types outside the decoder's match: 2 is SSH_FXP_VERSION, 200
\* SSH_FXP_EXTENDED, 201 SSH_FXP_EXTENDED_REPLY.
OtherPacketTypes == {0, 1, 2, 100, 106, 200, 201, 255}

WireBodies ==
    [kind : {"status"}, code : WireStatusCodes, msg : WireMsgs, tag : WireTags]
    \cup [kind : {"handle"}, handle : WireHandles]
    \cup [kind : {"data"}, data : WireData]
    \cup [kind : {"name"}, entries : SeqsUpTo(WireNameEntries, MaxNameEntries)]
    \cup [kind : {"name_count"}, count : {2147483647},
          entries : {<<>>, <<[filename |-> <<97>>, longname |-> <<>>,
                              attrs |-> WireAttrsEmpty]>>}]
    \cup [kind : {"attrs"}, attrs : WireAttrsSmall]
    \cup [kind : {"other"}, type : OtherPacketTypes, raw : {<<>>, <<0, 0, 0, 0>>}]

\* granted: the allocator's answer to with_capacity, a refusal being drawn for
\* the Name responses that declare 2^31 - 1 entries.
WireResponses ==
    {p \in [id : Ids, body : WireBodies, cut : 0..MaxCut, granted : BOOLEAN] :
         p.granted \/ p.body.kind = "name_count"}

RECURSIVE WireEntries(_)
WireEntries(l) ==
    IF l = <<>> THEN <<>>
    ELSE Bytes(l[1].filename) \o Bytes(l[1].longname) \o WireAttrsBytes(l[1].attrs)
         \o WireEntries(Tail(l))

WirePacketType(body) ==
    CASE body.kind = "status" -> 101
      [] body.kind = "handle" -> 102
      [] body.kind = "data" -> 103
      [] body.kind = "name" -> 104
      [] body.kind = "name_count" -> 104
      [] body.kind = "attrs" -> 105
      [] body.kind = "other" -> body.type

WirePayload(body) ==
    CASE body.kind = "status" -> U32(body.code) \o Bytes(body.msg) \o Bytes(body.tag)
      [] body.kind = "handle" -> Bytes(body.handle)
      [] body.kind = "data" -> body.data
      [] body.kind = "name" -> U32(Len(body.entries)) \o WireEntries(body.entries)
      [] body.kind = "name_count" -> U32(body.count) \o WireEntries(body.entries)
      [] body.kind = "attrs" -> WireAttrsBytes(body.attrs)
      [] body.kind = "other" -> body.raw

WireResponseBytes(p) ==
    LET whole == U8(WirePacketType(p.body)) \o U32(p.id) \o WirePayload(p.body) IN
    Take(whole, Len(whole) - p.cut)

\* A complete packet whose strings are UTF-8, whose status code is one a server
\* may send and whose modes hold valid file types.
WireResponseWellFormed(p) ==
    /\ p.cut = 0
    /\ p.body.kind # "name_count"
    /\ p.body.kind = "status" =>
           /\ p.body.code \in {0, 1, 2, 3, 4, 5, 8}
           /\ IsUtf8(p.body.msg)
           /\ IsUtf8(p.body.tag)
    /\ p.body.kind = "name" =>
           \A i \in 1..Len(p.body.entries) : WireModeValid(p.body.entries[i].attrs)
    /\ p.body.kind = "attrs" => WireModeValid(p.body.attrs)

(***************************************************************************)
(* Decoding one response packet.                                           *)
(***************************************************************************)
\* SharedArena::alloc: the slots it may hand out.
FreeSlots_any(a) == Slots

FreeSlots(a) == Slots \ a.used

LiveBoxes == {b \in BoxIds : boxes[b].slot # 0}

\* The name the caller gives to the box it gets: the first one not live.
NextBox == CHOOSE b \in BoxIds \ LiveBoxes : \A c \in BoxIds \ LiveBoxes : b <= c

\* ARENA.get_or_init(SharedArena::new): the thread that finds the cell empty
\* runs the initialiser, a thread that finds it full goes on, and a thread
\* that finds the initialiser running waits.
GetOrInit(t) ==
    /\ threads[t].pc = "get_or_init"
    /\ arena.cell # "running"
    /\ IF arena.cell = "empty"
       THEN /\ arena' = [arena EXCEPT !.cell = "running"]
            /\ threads' = [threads EXCEPT ![t].pc = "SharedArena::new"]
       ELSE /\ threads' = [threads EXCEPT ![t].pc = "alloc"]
            /\ UNCHANGED arena
    /\ UNCHANGED <<attrs, ser, call, ret, boxes>>

\* SharedArena::new, and the cell filled with what it returned.
ArenaNew(t) ==
    /\ threads[t].pc = "SharedArena::new"
    /\ arena' = [arena EXCEPT !.cell = "full", !.inits = @ + 1]
    /\ threads' = [threads EXCEPT ![t].pc = "alloc"]
    /\ UNCHANGED <<attrs, ser, call, ret, boxes>>

\* SharedArena::alloc(file_attrs): the value moved into a free slot, the box
\* returned to the caller.  Inside Response::deserialize the caller is
\* FileAttrsBox::deserialize, and the response that holds the box is returned.
Alloc(t, slot, b) ==
    /\ threads[t].pc = "alloc"
    /\ slot \in FreeSlots(arena)
    /\ BoxIds # LiveBoxes
    /\ b = NextBox
    /\ arena' = [arena EXCEPT !.used = @ \cup {slot}, !.mem[slot] = threads[t].val]
    /\ boxes' = [boxes EXCEPT ![b] = [slot |-> slot, from |-> threads[t].src]]
    /\ threads' = [threads EXCEPT ![t] = Idle]
    /\ IF threads[t].de = None
       THEN /\ call' = [op |-> "SharedArena::alloc", thread |-> t, box |-> b,
                        src |-> threads[t].src]
            /\ ret' = Ok(threads[t].val, <<>>)
       ELSE /\ call' = [op |-> "Response::deserialize", arg |-> threads[t].de[1].arg,
                        thread |-> t, box |-> b]
            /\ ret' = threads[t].de[1].ret
    /\ UNCHANGED <<attrs, ser>>

\* Response::deserialize called by thread t.  The packet is decoded by the
\* thread alone.  An Attrs response holds a FileAttrsBox: FileAttrsBox::deserialize
\* has the attrs decoded and calls FileAttrsBox::new, so the thread goes on to
\* get_or_init, where it waits while another thread runs the initialiser, and
\* the response is returned by the step that allocates the box.  Every other
\* response, and every error, is returned at once.
DecodeResponse(t, p) ==
    /\ threads[t].pc = "idle"
    /\ \E r \in {Response_deserialize(WireResponseBytes(p), p.granted)} :
           IF r.ok /\ r.val.response_inner.kind = "Attrs"
           THEN /\ threads' = [threads EXCEPT ![t] =
                                   [pc |-> "get_or_init", val |-> r.val.response_inner.attrs,
                                    src |-> 0, de |-> Some([arg |-> p, ret |-> r])]]
                /\ call' = [op |-> "FileAttrsBox::deserialize", arg |-> p, thread |-> t,
                            box |-> 0]
                /\ ret' = Unit
           ELSE /\ call' = [op |-> "Response::deserialize", arg |-> p, thread |-> t,
                            box |-> 0]
                /\ ret' = r
                /\ UNCHANGED threads
    /\ UNCHANGED <<attrs, ser, arena, boxes>>

\* One call of Response::deserialize, from its first step to its return.
NextResponse ==
    \/ \E t \in Threads, p \in WireResponses : call.op = "new" /\ DecodeResponse(t, p)
    \/ \E t \in Threads : GetOrInit(t)
    \/ \E t \in Threads : ArenaNew(t)
    \/ \E t \in Threads, slot \in Slots, b \in BoxIds : Alloc(t, slot, b)

SpecResponse == Init /\ [][NextResponse]_vars

(***************************************************************************)
(* Claims about the response decoder.                                      *)
(***************************************************************************)
StatusDecoded == call.op = "Response::deserialize" /\ call.arg.body.kind = "status"

\* The status taxonomy Success | Eof | Failure(ErrorCode) by wire code.
Taxonomy(code) ==
    CASE code = 0 -> <<"Success">>
      [] code = 1 -> <<"Eof">>
      [] code = 2 -> <<"Failure", "NoSuchFile">>
      [] code = 3 -> <<"Failure", "PermDenied">>
      [] code = 4 -> <<"Failure", "Failure">>
      [] code = 5 -> <<"Failure", "BadMessage">>
      [] code = 8 -> <<"Failure", "OpUnsupported">>

\* C4 as stated: decoding a complete Status packet whose code is 0, 1, 2, 3, 4, 5
\* or 8 succeeds and returns a Status response that carries the code's value in
\* the taxonomy Success | Eof | Failure(ErrorCode), where 1 is Eof, a value
\* distinct from every Failure(_), together with the (message, language tag) read.
C4_StatusTaxonomy ==
    (StatusDecoded /\ WireResponseWellFormed(call.arg)) =>
        /\ ret.ok
        /\ ret.val.response_inner.kind = "Status"
        /\ ret.val.response_inner.status_code = Taxonomy(call.arg.body.code)
        /\ ret.val.response_inner.err_msg = <<call.arg.body.msg, call.arg.body.tag>>

\* C5: decoding a Status packet whose code is 6, 7 or any value other than 0, 1,
\* 2, 3, 4, 5, 8 returns an invalid-value error (the pseudo-error message for 6
\* and 7, the unknown-code message otherwise) and no Response.
C5_StrictStatusCodes ==
    (StatusDecoded /\ call.arg.body.code \notin {0, 1, 2, 3, 4, 5, 8}) =>
        /\ ~ret.ok
        /\ ret.err = "InvalidValue"
        /\ call.arg.body.code \in {6, 7} =>
               ret.expected = "Server MUST NOT return SSH_FX_NO_CONNECTION or SSH_FX_CONNECTION_LOST for they are pseudo-error that can only be generated locally."
        /\ call.arg.body.code \notin {6, 7} => ret.expected = "Invalid status code"

\* A complete Status packet with code 7 and one with a code above the table have
\* been decoded to an error.
C5_Witness ==
    /\ StatusDecoded
    /\ call.arg.body.code \in {7, 2147483647}
    /\ call.arg.cut = 0
    /\ IsUtf8(call.arg.body.msg)
    /\ ~ret.ok

\* The kind the response table gives an opcode.
KindOf(opcode) ==
    CASE opcode = 101 -> "Status"
      [] opcode = 102 -> "Handle"
      [] opcode = 103 -> "Data"
      [] opcode = 104 -> "Name"
      [] opcode = 105 -> "Attrs"

\* C6: a decoded Response has the u32 that follows the opcode byte as its
\* response_id and the kind the opcode selects (101 Status, 102 Handle, 103
\* Data, 104 Name, 105 Attrs); a packet with any other opcode decodes to the
\* invalid-packet-type error; a well-formed packet of the table decodes.
C6_OpcodeSelectsKind ==
    call.op = "Response::deserialize" =>
        /\ ret.ok =>
               /\ WireResponseBytes(call.arg)[1] \in 101..105
               /\ ret.val.response_id = WordVal(SubSeq(WireResponseBytes(call.arg), 2, 5))
               /\ ret.val.response_id = call.arg.id
               /\ ret.val.response_inner.kind = KindOf(WireResponseBytes(call.arg)[1])
        /\ (/\ Len(WireResponseBytes(call.arg)) >= 5
            /\ WireResponseBytes(call.arg)[1] \notin 101..105) =>
               /\ ~ret.ok
               /\ ret.err = "InvalidValue"
               /\ ret.expected = "Invalid packet type"
        /\ (/\ WireResponseWellFormed(call.arg)
            /\ call.arg.body.kind # "other") => ret.ok

\* A Name response with two entries and the id 0x01020304 has been decoded.
C6_Witness ==
    /\ call.op = "Response::deserialize"
    /\ call.arg.body.kind = "name"
    /\ call.arg.id = 16909060
    /\ ret.ok
    /\ ret.val.response_id = 16909060
    /\ ret.val.response_inner.kind = "Name"
    /\ Len(ret.val.response_inner.entries) = 2

(***************************************************************************)
(* The version handshake (ServerVersion::deserialize).                     *)
(* constants: the packet type and the (name, revision) of each extension.  *)
(* A u64 revision is held as its decimal digits without leading zeros.     *)
(***************************************************************************)
SSH_FXP_VERSION == 2

\* ("posix-rename@openssh.com", 1)
EXT_NAME_POSIX_RENAME ==
    << <<112, 111, 115, 105, 120, 45, 114, 101, 110, 97, 109, 101, 64, 111, 112, 101, 110, 115, 115, 104, 46, 99, 111, 109>>,
       <<1>> >>
\* ("statvfs@openssh.com", 2)
EXT_NAME_STATVFS ==
    << <<115, 116, 97, 116, 118, 102, 115, 64, 111, 112, 101, 110, 115, 115, 104, 46, 99, 111, 109>>,
       <<2>> >>
\* ("fstatvfs@openssh.com", 2)
EXT_NAME_FSTATVFS ==
    << <<102, 115, 116, 97, 116, 118, 102, 115, 64, 111, 112, 101, 110, 115, 115, 104, 46, 99, 111, 109>>,
       <<2>> >>
\* ("hardlink@openssh.com", 1)
EXT_NAME_HARDLINK ==
    << <<104, 97, 114, 100, 108, 105, 110, 107, 64, 111, 112, 101, 110, 115, 115, 104, 46, 99, 111, 109>>,
       <<1>> >>
\* ("fsync@openssh.com", 1)
EXT_NAME_FSYNC ==
    << <<102, 115, 121, 110, 99, 64, 111, 112, 101, 110, 115, 115, 104, 46, 99, 111, 109>>,
       <<1>> >>
\* ("lsetstat@openssh.com", 1)
EXT_NAME_LSETSTAT ==
    << <<108, 115, 101, 116, 115, 116, 97, 116, 64, 111, 112, 101, 110, 115, 115, 104, 46, 99, 111, 109>>,
       <<1>> >>
\* ("limits@openssh.com", 1)
EXT_NAME_LIMITS ==
    << <<108, 105, 109, 105, 116, 115, 64, 111, 112, 101, 110, 115, 115, 104, 46, 99, 111, 109>>,
       <<1>> >>
\* ("expand-path@openssh.com", 1)
EXT_NAME_EXPAND_PATH ==
    << <<101, 120, 112, 97, 110, 100, 45, 112, 97, 116, 104, 64, 111, 112, 101, 110, 115, 115, 104, 46, 99, 111, 109>>,
       <<1>> >>
\* ("copy-data", 1)
EXT_NAME_COPY_DATA ==
    << <<99, 111, 112, 121, 45, 100, 97, 116, 97>>,
       <<1>> >>

Extensions_default ==
    [posix_rename |-> FALSE, statvfs |-> FALSE, fstatvfs |-> FALSE, hardlink |-> FALSE,
     fsync |-> FALSE, lsetstat |-> FALSE, limits |-> FALSE, expand_path |-> FALSE]

\* from_utf8(bytes)
from_utf8(bytes) == IF IsUtf8(bytes) THEN Ok(bytes, <<>>) ELSE Err("Utf8Error")

RECURSIVE StripZeros(_)
StripZeros(d) == IF Len(d) > 1 /\ d[1] = 0 THEN StripZeros(Tail(d)) ELSE d

\* u64::MAX = 18446744073709551615
U64_MAX == <<1, 8, 4, 4, 6, 7, 4, 4, 0, 7, 3, 7, 0, 9, 5, 5, 1, 6, 1, 5>>

\* a <= b for two digit strings of one length
RECURSIVE DigitsLeq(_, _)
DigitsLeq(a, b) ==
    IF a = <<>> THEN TRUE
    ELSE IF a[1] # b[1] THEN a[1] < b[1]
    ELSE DigitsLeq(Tail(a), Tail(b))

\* The digits after the optional '+' sign.
Unsigned(s) == IF Len(s) > 1 /\ s[1] = 43 THEN Tail(s) ELSE s

\* The value of the first n digits of d, as decimal digits without leading
\* zeros.
DigitValues(d, n) == StripZeros([i \in 1..n |-> d[i] - 48])

\* The value is beyond u64::MAX: checked_mul(10) or checked_add(digit) fails.
ExceedsU64(v) == Len(v) > 20 \/ (Len(v) = 20 /\ ~DigitsLeq(v, U64_MAX))

\* for &c in digits: the character is a digit, or InvalidDigit; the result
\* times 10 plus the digit fits, or PosOverflow.  The first failure from the
\* left is returned.
RECURSIVE ParseDigits(_, _)
ParseDigits(d, i) ==
    IF i > Len(d) THEN Ok(DigitValues(d, Len(d)), <<>>)
    ELSE IF d[i] \notin 48..57 THEN Err("InvalidDigit")
    ELSE IF ExceedsU64(DigitValues(d, i)) THEN Err("PosOverflow")
    ELSE ParseDigits(d, i + 1)

\* <u64 as FromStr>::from_str: an optional '+', then one or more of '0'..'9',
\* the value no more than u64::MAX.
parse_u64(s) == IF s = <<>> THEN Err("Empty") ELSE ParseDigits(Unsigned(s), 1)

\* MatchExtension with the last announcement of a name deciding its flag.
MatchExtension_last_wins(extensions, pair) ==
    CASE pair[1] = EXT_NAME_POSIX_RENAME[1]
             -> [extensions EXCEPT !.posix_rename = (pair = EXT_NAME_POSIX_RENAME)]
      [] pair[1] = EXT_NAME_STATVFS[1]
             -> [extensions EXCEPT !.statvfs = (pair = EXT_NAME_STATVFS)]
      [] pair[1] = EXT_NAME_FSTATVFS[1]
             -> [extensions EXCEPT !.fstatvfs = (pair = EXT_NAME_FSTATVFS)]
      [] pair[1] = EXT_NAME_HARDLINK[1]
             -> [extensions EXCEPT !.hardlink = (pair = EXT_NAME_HARDLINK)]
      [] pair[1] = EXT_NAME_FSYNC[1]
             -> [extensions EXCEPT !.fsync = (pair = EXT_NAME_FSYNC)]
      [] pair[1] = EXT_NAME_LSETSTAT[1]
             -> [extensions EXCEPT !.lsetstat = (pair = EXT_NAME_LSETSTAT)]
      [] pair[1] = EXT_NAME_LIMITS[1]
             -> [extensions EXCEPT !.limits = (pair = EXT_NAME_LIMITS)]
      [] pair[1] = EXT_NAME_EXPAND_PATH[1]
             -> [extensions EXCEPT !.expand_path = (pair = EXT_NAME_EXPAND_PATH)]
      [] OTHER -> extensions

\* match (name, revision) { ... }
MatchExtension(extensions, pair) ==
    CASE pair = EXT_NAME_POSIX_RENAME -> [extensions EXCEPT !.posix_rename = TRUE]
      [] pair = EXT_NAME_STATVFS -> [extensions EXCEPT !.statvfs = TRUE]
      [] pair = EXT_NAME_FSTATVFS -> [extensions EXCEPT !.fstatvfs = TRUE]
      [] pair = EXT_NAME_HARDLINK -> [extensions EXCEPT !.hardlink = TRUE]
      [] pair = EXT_NAME_FSYNC -> [extensions EXCEPT !.fsync = TRUE]
      [] pair = EXT_NAME_LSETSTAT -> [extensions EXCEPT !.lsetstat = TRUE]
      [] pair = EXT_NAME_LIMITS -> [extensions EXCEPT !.limits = TRUE]
      [] pair = EXT_NAME_EXPAND_PATH -> [extensions EXCEPT !.expand_path = TRUE]
      [] OTHER -> extensions

\* The three ok_or_continue! of one iteration, then the match.
ParsePair(extensions, name, revision) ==
    IF ~from_utf8(name).ok THEN extensions
    ELSE IF ~from_utf8(revision).ok THEN extensions
    ELSE IF ~parse_u64(revision).ok THEN extensions
    ELSE MatchExtension(extensions, <<name, parse_u64(revision).val>>)

\* ReadPairs parsing a pair as soon as its name is read: a name that is not
\* UTF-8 ends the iteration with the revision unread.
RECURSIVE ReadPairs_continue_before_revision(_, _)
ReadPairs_continue_before_revision(b, extensions) ==
    IF b = <<>> THEN Ok(extensions, <<>>)
    ELSE Try(GetBytes(b), LAMBDA name :
             IF ~from_utf8(name.val).ok
             THEN ReadPairs_continue_before_revision(name.rest, extensions)
             ELSE Try(GetBytes(name.rest), LAMBDA revision :
                      ReadPairs_continue_before_revision(
                          revision.rest, ParsePair(extensions, name.val, revision.val))))

\* while !de.into_inner().is_empty() { name; revision; parse; match }
RECURSIVE ReadPairs(_, _)
ReadPairs(b, extensions) ==
    IF b = <<>> THEN Ok(extensions, <<>>)
    ELSE Try(GetBytes(b), LAMBDA name :
         Try(GetBytes(name.rest), LAMBDA revision :
             ReadPairs(revision.rest, ParsePair(extensions, name.val, revision.val))))

ServerVersion_deserialize(bytes) ==
    Try(GetU8(bytes), LAMBDA packet_type :
        IF packet_type.val # SSH_FXP_VERSION THEN Err("Unexpected response")
        ELSE Try(GetU32(packet_type.rest), LAMBDA version :
             Try(ReadPairs(version.rest, Extensions_default), LAMBDA extensions :
                 Ok([version |-> version.val, extensions |-> extensions.val], <<>>))))

(***************************************************************************)
(* Inputs of the version handshake.                                        *)
(***************************************************************************)
\* The most extension pairs of a generated version packet.
MaxVersionPairs == 2

\* "1", "2", "01", "+1", "", "1a", bytes that are not UTF-8, 2^64
WireRevisions ==
    {<<49>>, <<50>>, <<48, 49>>, <<43, 49>>, <<>>, <<49, 97>>, <<255>>,
     <<49, 56, 52, 52, 54, 55, 52, 52, 48, 55, 51, 55, 48, 57, 53, 53, 49, 54, 49, 54>>}

\* The nine names of the table, a name outside it, and bytes that are not UTF-8.
WireNames ==
    {EXT_NAME_POSIX_RENAME[1], EXT_NAME_STATVFS[1], EXT_NAME_FSTATVFS[1],
     EXT_NAME_HARDLINK[1], EXT_NAME_FSYNC[1], EXT_NAME_LSETSTAT[1], EXT_NAME_LIMITS[1],
     EXT_NAME_EXPAND_PATH[1], EXT_NAME_COPY_DATA[1], <<120, 64, 121>>, <<192, 128>>}

\* The announcements a server makes: every name at revision 1, statvfs and
\* fstatvfs at revision 2, posix-rename with every revision, and a pair neither
\* string of which is UTF-8.
WirePairs ==
    (WireNames \X {<<49>>})
    \cup ({EXT_NAME_STATVFS[1], EXT_NAME_FSTATVFS[1]} \X {<<50>>})
    \cup ({EXT_NAME_POSIX_RENAME[1]} \X WireRevisions)
    \cup {<< <<192, 128>>, <<255>> >>}

\* 2 is SSH_FXP_VERSION; 101 is another packet type.
WireVersions ==
    [type : {2, 101}, version : {3, 2147483647},
     pairs : SeqsUpTo(WirePairs, MaxVersionPairs), cut : 0..MaxCut]

RECURSIVE WireVersionPairs(_)
WireVersionPairs(l) ==
    IF l = <<>> THEN <<>>
    ELSE Bytes(l[1][1]) \o Bytes(l[1][2]) \o WireVersionPairs(Tail(l))

WireVersionBytes(p) ==
    Take(U8(p.type) \o U32(p.version) \o WireVersionPairs(p.pairs),
         Len(U8(p.type) \o U32(p.version) \o WireVersionPairs(p.pairs)) - p.cut)

(***************************************************************************)
(* Decoding the server's version packet.                                   *)
(***************************************************************************)
DecodeVersion ==
    /\ call.op = "new"
    /\ \E p \in WireVersions :
           /\ call' = [op |-> "ServerVersion::deserialize", arg |-> p]
           /\ ret' = ServerVersion_deserialize(WireVersionBytes(p))
    /\ UNCHANGED <<attrs, ser, arena, boxes, threads>>

NextVersion == DecodeVersion

SpecVersion == Init /\ [][NextVersion]_vars

(***************************************************************************)
(* Claims about the version handshake.                                     *)
(***************************************************************************)
VersionDecoded ==
    /\ call.op = "ServerVersion::deserialize"
    /\ call.arg.type = 2
    /\ call.arg.cut = 0

\* The names of the extension table.
TableNames ==
    {EXT_NAME_POSIX_RENAME[1], EXT_NAME_STATVFS[1], EXT_NAME_FSTATVFS[1],
     EXT_NAME_HARDLINK[1], EXT_NAME_FSYNC[1], EXT_NAME_LSETSTAT[1], EXT_NAME_LIMITS[1],
     EXT_NAME_EXPAND_PATH[1], EXT_NAME_COPY_DATA[1]}

\* A pair the decoder is to skip: a name or a revision that is not UTF-8, a
\* revision that is not a decimal u64, or a name outside the table.
Skipped(pair) ==
    \/ ~IsUtf8(pair[1])
    \/ ~IsUtf8(pair[2])
    \/ ~parse_u64(pair[2]).ok
    \/ pair[1] \notin TableNames

RECURSIVE WithoutSkipped(_)
WithoutSkipped(l) ==
    IF l = <<>> THEN <<>>
    ELSE IF Skipped(l[1]) THEN WithoutSkipped(Tail(l))
    ELSE <<l[1]>> \o WithoutSkipped(Tail(l))

\* C7: decoding a version packet made of complete (name, revision) pairs
\* succeeds and returns the packet's version and the extension set that decoding
\* returns for the packet without its malformed and unknown pairs.
C7_MalformedPairsSkipped ==
    VersionDecoded =>
        /\ ret.ok
        /\ ret.val.version = call.arg.version
        /\ ret.val = ServerVersion_deserialize(
                         WireVersionBytes([call.arg EXCEPT !.pairs = WithoutSkipped(@)])).val

\* A packet whose first pair has a name that is not UTF-8 and whose second pair
\* announces posix-rename revision 1 has been decoded, and posix_rename is set.
C7_Witness ==
    /\ VersionDecoded
    /\ Len(call.arg.pairs) = 2
    /\ ~IsUtf8(call.arg.pairs[1][1])
    /\ call.arg.pairs[2] = <<EXT_NAME_POSIX_RENAME[1], <<49>>>>
    /\ ret.ok
    /\ ret.val.extensions.posix_rename

\* The flag of the returned extension set that stands for a table entry.
Flag(extensions, field) == field \in DOMAIN extensions /\ extensions[field]

\* The packet holds a pair with the entry's name and a revision that parses to
\* the entry's revision.
Announced(pairs, entry) ==
    \E i \in 1..Len(pairs) :
        /\ pairs[i][1] = entry[1]
        /\ parse_u64(pairs[i][2]).ok
        /\ parse_u64(pairs[i][2]).val = entry[2]

\* C8 as stated: each of the nine flags of the returned extension set
\* (posix_rename, statvfs, fstatvfs, hardlink, fsync, lsetstat, limits,
\* expand_path, copy_data) is set if and only if the packet holds a pair with the
\* extension's name and tabled revision; the packet with no pairs decodes with
\* every flag unset.
C8_NineFlagsIffAnnounced ==
    VersionDecoded =>
        /\ ret.ok
        /\ Flag(ret.val.extensions, "posix_rename")
               <=> Announced(call.arg.pairs, EXT_NAME_POSIX_RENAME)
        /\ Flag(ret.val.extensions, "statvfs") <=> Announced(call.arg.pairs, EXT_NAME_STATVFS)
        /\ Flag(ret.val.extensions, "fstatvfs") <=> Announced(call.arg.pairs, EXT_NAME_FSTATVFS)
        /\ Flag(ret.val.extensions, "hardlink") <=> Announced(call.arg.pairs, EXT_NAME_HARDLINK)
        /\ Flag(ret.val.extensions, "fsync") <=> Announced(call.arg.pairs, EXT_NAME_FSYNC)
        /\ Flag(ret.val.extensions, "lsetstat") <=> Announced(call.arg.pairs, EXT_NAME_LSETSTAT)
        /\ Flag(ret.val.extensions, "limits") <=> Announced(call.arg.pairs, EXT_NAME_LIMITS)
        /\ Flag(ret.val.extensions, "expand_path")
               <=> Announced(call.arg.pairs, EXT_NAME_EXPAND_PATH)
        /\ Flag(ret.val.extensions, "copy_data")
               <=> Announced(call.arg.pairs, EXT_NAME_COPY_DATA)

\* The eight flags the extension set holds are set if and only if announced, and
\* the set has no ninth.
EightFlagsIffAnnounced ==
    VersionDecoded =>
        /\ ret.ok
        /\ DOMAIN ret.val.extensions =
               {"posix_rename", "statvfs", "fstatvfs", "hardlink", "fsync", "lsetstat",
                "limits", "expand_path"}
        /\ ret.val.extensions.posix_rename <=> Announced(call.arg.pairs, EXT_NAME_POSIX_RENAME)
        /\ ret.val.extensions.statvfs <=> Announced(call.arg.pairs, EXT_NAME_STATVFS)
        /\ ret.val.extensions.fstatvfs <=> Announced(call.arg.pairs, EXT_NAME_FSTATVFS)
        /\ ret.val.extensions.hardlink <=> Announced(call.arg.pairs, EXT_NAME_HARDLINK)
        /\ ret.val.extensions.fsync <=> Announced(call.arg.pairs, EXT_NAME_FSYNC)
        /\ ret.val.extensions.lsetstat <=> Announced(call.arg.pairs, EXT_NAME_LSETSTAT)
        /\ ret.val.extensions.limits <=> Announced(call.arg.pairs, EXT_NAME_LIMITS)
        /\ ret.val.extensions.expand_path <=> Announced(call.arg.pairs, EXT_NAME_EXPAND_PATH)
        /\ call.arg.pairs = <<>> => ret.val.extensions = Extensions_default

(***************************************************************************)
(* The request encoder (request.rs).                                       *)
(* constants: the packet types of the requests.                            *)
(***************************************************************************)
SSH_FXP_INIT == 1
SSH_FXP_OPEN == 3
SSH_FXP_CLOSE == 4
SSH_FXP_READ == 5
SSH_FXP_WRITE == 6
SSH_FXP_LSTAT == 7
SSH_FXP_FSTAT == 8
SSH_FXP_SETSTAT == 9
SSH_FXP_FSETSTAT == 10
SSH_FXP_OPENDIR == 11
SSH_FXP_READDIR == 12
SSH_FXP_REMOVE == 13
SSH_FXP_MKDIR == 14
SSH_FXP_RMDIR == 15
SSH_FXP_REALPATH == 16
SSH_FXP_STAT == 17
SSH_FXP_RENAME == 18
SSH_FXP_READLINK == 19
SSH_FXP_SYMLINK == 20
SSH_FXP_EXTENDED == 200

(***************************************************************************)
(* Serializing into the serializer's buffer.  The result of serializing an *)
(* element is Ok with the bytes written (val), or an error with the bytes  *)
(* written before it arose.                                                *)
(***************************************************************************)
Written(bytes) == [ok |-> TRUE, val |-> bytes]

SerErr(e, bytes) == [ok |-> FALSE, err |-> e, val |-> bytes]

u8(n) == Written(U8(n))

u32(n) == Written(U32(n))

u64(n) == Written(U64(n))

\* [u8] and Handle: the length, then the bytes
u8_slice(b) == Written(Bytes(b))

str(b) == Written(Bytes(b))

\* impl Serialize for Path (serde): a path that is not UTF-8 is an error.
Path_serialize(path) ==
    IF IsUtf8(path) THEN str(path)
    ELSE SerErr("path contains invalid UTF-8 characters", <<>>)

\* #[derive(Serialize)] struct Handle([u8])
Handle_serialize(handle) == u8_slice(handle)

attrs_serialize(a) == Written(FileAttrs_serialize(a))

\* A tuple or struct: its elements one after the other; the first error ends it.
RECURSIVE SerElements(_, _)
SerElements(elements, out) ==
    IF elements = <<>> THEN Written(out)
    ELSE IF ~elements[1].ok THEN SerErr(elements[1].err, out \o elements[1].val)
    ELSE SerElements(Tail(elements), out \o elements[1].val)

SerTuple(elements) == SerElements(elements, <<>>)

\* impl Serialize for Hello
Hello_serialize(version) == SerTuple(<<u8(SSH_FXP_INIT), u32(version)>>)

\* #[derive(Serialize)] struct OpenFileRequest { filename, flags, attrs }
OpenFileRequest_serialize(params) ==
    SerTuple(<<Path_serialize(params.filename), u32(params.flags),
               attrs_serialize(params.attrs)>>)

\* Request_serialize with the two paths of Symlink in the order linkpath,
\* targetpath.
Request_serialize_linkpath_first(request_id, inner) ==
    CASE inner.kind = "Open" ->
               SerTuple(<<u8(SSH_FXP_OPEN), u32(request_id),
                           OpenFileRequest_serialize(inner.params)>>)
      [] inner.kind = "Close" ->
               SerTuple(<<u8(SSH_FXP_CLOSE), u32(request_id),
                           Handle_serialize(inner.handle)>>)
      [] inner.kind = "Read" ->
               SerTuple(<<u8(SSH_FXP_READ), u32(request_id),
                           Handle_serialize(inner.handle), u64(inner.offset),
                           u32(inner.len)>>)
      [] inner.kind = "Remove" ->
               SerTuple(<<u8(SSH_FXP_REMOVE), u32(request_id),
                           Path_serialize(inner.path)>>)
      [] inner.kind = "Rename" ->
               SerTuple(<<u8(SSH_FXP_RENAME), u32(request_id),
                           Path_serialize(inner.oldpath), Path_serialize(inner.newpath)>>)
      [] inner.kind = "Mkdir" ->
               SerTuple(<<u8(SSH_FXP_MKDIR), u32(request_id),
                           Path_serialize(inner.path), attrs_serialize(inner.attrs)>>)
      [] inner.kind = "Rmdir" ->
               SerTuple(<<u8(SSH_FXP_RMDIR), u32(request_id),
                           Path_serialize(inner.path)>>)
      [] inner.kind = "Opendir" ->
               SerTuple(<<u8(SSH_FXP_OPENDIR), u32(request_id),
                           Path_serialize(inner.path)>>)
      [] inner.kind = "Readdir" ->
               SerTuple(<<u8(SSH_FXP_READDIR), u32(request_id),
                           Handle_serialize(inner.handle)>>)
      [] inner.kind = "Stat" ->
               SerTuple(<<u8(SSH_FXP_STAT), u32(request_id),
                           Path_serialize(inner.path)>>)
      [] inner.kind = "Lstat" ->
               SerTuple(<<u8(SSH_FXP_LSTAT), u32(request_id),
                           Path_serialize(inner.path)>>)
      [] inner.kind = "Fstat" ->
               SerTuple(<<u8(SSH_FXP_FSTAT), u32(request_id),
                           Handle_serialize(inner.handle)>>)
      [] inner.kind = "Setstat" ->
               SerTuple(<<u8(SSH_FXP_SETSTAT), u32(request_id),
                           Path_serialize(inner.path), attrs_serialize(inner.attrs)>>)
      [] inner.kind = "Fsetstat" ->
               SerTuple(<<u8(SSH_FXP_FSETSTAT), u32(request_id),
                           Handle_serialize(inner.handle), attrs_serialize(inner.attrs)>>)
      [] inner.kind = "Readlink" ->
               SerTuple(<<u8(SSH_FXP_READLINK), u32(request_id),
                           Path_serialize(inner.path)>>)
      [] inner.kind = "Symlink" ->
               SerTuple(<<u8(SSH_FXP_SYMLINK), u32(request_id),
                           Path_serialize(inner.linkpath),
                           Path_serialize(inner.targetpath)>>)
      [] inner.kind = "Realpath" ->
               SerTuple(<<u8(SSH_FXP_REALPATH), u32(request_id),
                           Path_serialize(inner.path)>>)
      [] inner.kind = "Limits" ->
               SerTuple(<<u8(SSH_FXP_EXTENDED), u32(request_id),
                           str(EXT_NAME_LIMITS[1])>>)
      [] inner.kind = "ExpandPath" ->
               SerTuple(<<u8(SSH_FXP_EXTENDED), u32(request_id),
                           str(EXT_NAME_EXPAND_PATH[1]), Path_serialize(inner.path)>>)
      [] inner.kind = "Lsetstat" ->
               SerTuple(<<u8(SSH_FXP_EXTENDED), u32(request_id),
                           str(EXT_NAME_LSETSTAT[1]), Path_serialize(inner.path),
                           attrs_serialize(inner.attrs)>>)
      [] inner.kind = "Fsync" ->
               SerTuple(<<u8(SSH_FXP_EXTENDED), u32(request_id),
                           str(EXT_NAME_FSYNC[1]), Handle_serialize(inner.handle)>>)
      [] inner.kind = "HardLink" ->
               SerTuple(<<u8(SSH_FXP_EXTENDED), u32(request_id),
                           str(EXT_NAME_HARDLINK[1]), Path_serialize(inner.oldpath),
                           Path_serialize(inner.newpath)>>)
      [] inner.kind = "PosixRename" ->
               SerTuple(<<u8(SSH_FXP_EXTENDED), u32(request_id),
                           str(EXT_NAME_POSIX_RENAME[1]), Path_serialize(inner.oldpath),
                           Path_serialize(inner.newpath)>>)
      [] inner.kind = "Cp" ->
               SerTuple(<<u8(SSH_FXP_EXTENDED), u32(request_id),
                           str(EXT_NAME_COPY_DATA[1]),
                           Handle_serialize(inner.read_from_handle),
                           u64(inner.read_from_offset), u64(inner.read_data_length),
                           Handle_serialize(inner.write_to_handle),
                           u64(inner.write_to_offset)>>)
      [] inner.kind = "Write" ->
               SerTuple(<<u8(SSH_FXP_WRITE), u32(request_id),
                           Handle_serialize(inner.handle), u64(inner.offset),
                           u8_slice(inner.data)>>)

\* impl Serialize for Request
Request_serialize(request_id, inner) ==
    CASE inner.kind = "Open" ->
               SerTuple(<<u8(SSH_FXP_OPEN), u32(request_id),
                           OpenFileRequest_serialize(inner.params)>>)
      [] inner.kind = "Close" ->
               SerTuple(<<u8(SSH_FXP_CLOSE), u32(request_id),
                           Handle_serialize(inner.handle)>>)
      [] inner.kind = "Read" ->
               SerTuple(<<u8(SSH_FXP_READ), u32(request_id),
                           Handle_serialize(inner.handle), u64(inner.offset),
                           u32(inner.len)>>)
      [] inner.kind = "Remove" ->
               SerTuple(<<u8(SSH_FXP_REMOVE), u32(request_id),
                           Path_serialize(inner.path)>>)
      [] inner.kind = "Rename" ->
               SerTuple(<<u8(SSH_FXP_RENAME), u32(request_id),
                           Path_serialize(inner.oldpath), Path_serialize(inner.newpath)>>)
      [] inner.kind = "Mkdir" ->
               SerTuple(<<u8(SSH_FXP_MKDIR), u32(request_id),
                           Path_serialize(inner.path), attrs_serialize(inner.attrs)>>)
      [] inner.kind = "Rmdir" ->
               SerTuple(<<u8(SSH_FXP_RMDIR), u32(request_id),
                           Path_serialize(inner.path)>>)
      [] inner.kind = "Opendir" ->
               SerTuple(<<u8(SSH_FXP_OPENDIR), u32(request_id),
                           Path_serialize(inner.path)>>)
      [] inner.kind = "Readdir" ->
               SerTuple(<<u8(SSH_FXP_READDIR), u32(request_id),
                           Handle_serialize(inner.handle)>>)
      [] inner.kind = "Stat" ->
               SerTuple(<<u8(SSH_FXP_STAT), u32(request_id),
                           Path_serialize(inner.path)>>)
      [] inner.kind = "Lstat" ->
               SerTuple(<<u8(SSH_FXP_LSTAT), u32(request_id),
                           Path_serialize(inner.path)>>)
      [] inner.kind = "Fstat" ->
               SerTuple(<<u8(SSH_FXP_FSTAT), u32(request_id),
                           Handle_serialize(inner.handle)>>)
      [] inner.kind = "Setstat" ->
               SerTuple(<<u8(SSH_FXP_SETSTAT), u32(request_id),
                           Path_serialize(inner.path), attrs_serialize(inner.attrs)>>)
      [] inner.kind = "Fsetstat" ->
               SerTuple(<<u8(SSH_FXP_FSETSTAT), u32(request_id),
                           Handle_serialize(inner.handle), attrs_serialize(inner.attrs)>>)
      [] inner.kind = "Readlink" ->
               SerTuple(<<u8(SSH_FXP_READLINK), u32(request_id),
                           Path_serialize(inner.path)>>)
      [] inner.kind = "Symlink" ->
               SerTuple(<<u8(SSH_FXP_SYMLINK), u32(request_id),
                           Path_serialize(inner.targetpath),
                           Path_serialize(inner.linkpath)>>)
      [] inner.kind = "Realpath" ->
               SerTuple(<<u8(SSH_FXP_REALPATH), u32(request_id),
                           Path_serialize(inner.path)>>)
      [] inner.kind = "Limits" ->
               SerTuple(<<u8(SSH_FXP_EXTENDED), u32(request_id),
                           str(EXT_NAME_LIMITS[1])>>)
      [] inner.kind = "ExpandPath" ->
               SerTuple(<<u8(SSH_FXP_EXTENDED), u32(request_id),
                           str(EXT_NAME_EXPAND_PATH[1]), Path_serialize(inner.path)>>)
      [] inner.kind = "Lsetstat" ->
               SerTuple(<<u8(SSH_FXP_EXTENDED), u32(request_id),
                           str(EXT_NAME_LSETSTAT[1]), Path_serialize(inner.path),
                           attrs_serialize(inner.attrs)>>)
      [] inner.kind = "Fsync" ->
               SerTuple(<<u8(SSH_FXP_EXTENDED), u32(request_id),
                           str(EXT_NAME_FSYNC[1]), Handle_serialize(inner.handle)>>)
      [] inner.kind = "HardLink" ->
               SerTuple(<<u8(SSH_FXP_EXTENDED), u32(request_id),
                           str(EXT_NAME_HARDLINK[1]), Path_serialize(inner.oldpath),
                           Path_serialize(inner.newpath)>>)
      [] inner.kind = "PosixRename" ->
               SerTuple(<<u8(SSH_FXP_EXTENDED), u32(request_id),
                           str(EXT_NAME_POSIX_RENAME[1]), Path_serialize(inner.oldpath),
                           Path_serialize(inner.newpath)>>)
      [] inner.kind = "Cp" ->
               SerTuple(<<u8(SSH_FXP_EXTENDED), u32(request_id),
                           str(EXT_NAME_COPY_DATA[1]),
                           Handle_serialize(inner.read_from_handle),
                           u64(inner.read_from_offset), u64(inner.read_data_length),
                           Handle_serialize(inner.write_to_handle),
                           u64(inner.write_to_offset)>>)
      [] inner.kind = "Write" ->
               SerTuple(<<u8(SSH_FXP_WRITE), u32(request_id),
                           Handle_serialize(inner.handle), u64(inner.offset),
                           u8_slice(inner.data)>>)

\* Serializer::get_output_with_data: the buffer under the 4-byte size of the
\* buffer and the data that is to follow it.
get_output_with_data(buffer, additional_len) == U32(Len(buffer) + additional_len) \o buffer

\* Serializer::get_output
get_output(buffer) == get_output_with_data(buffer, 0)

\* serialize_write_request_header with the offset written before the handle.
serialize_write_request_offset_first(request_id, handle, offset, data_len) ==
    SerTuple(<<u8(SSH_FXP_WRITE), u32(request_id), u64(offset), Handle_serialize(handle),
               u32(data_len)>>)

\* Request::serialize_write_request: the tuple it serializes after the reset.
serialize_write_request_header(request_id, handle, offset, data_len) ==
    SerTuple(<<u8(SSH_FXP_WRITE), u32(request_id), Handle_serialize(handle), u64(offset),
               u32(data_len)>>)

(***************************************************************************)
(* Inputs of the request encoder.                                          *)
(***************************************************************************)
\* The most bytes of the data of a generated Write request.
MaxDataLen == 2

RequestIds == {0, 7, 16909060}
ReqHandles == {<<>>, <<170, 187>>}
\* "a", "/b" followed by e-acute, and a path that is not UTF-8
ReqPaths == {<<97>>, <<47, 98, 195, 169>>, <<255>>}
\* "c", and a path that is not UTF-8
ReqNewPaths == {<<99>>, <<128>>}
\* new(); a size and permissions set; a regular file's attrs as a server sent them
ReqAttrs ==
    {FileAttrs_new,
     set_permissions(set_size(FileAttrs_new, u64_from(2333)), 420),
     [FileAttrs_new EXCEPT !.flags = FLAG_PERMISSIONS, !.st_mode = S_IFREG + 420]}
ReqOffsets == {u64_from(0), <<65535, 65535, 65535, 65535>>}
ReqLens == {0, 32768}
\* READ; WRITE | CREAT | TRUNC
ReqOpenFlags == {1, 26}
ReqData == SeqsUpTo({0, 255}, MaxDataLen)
HelloVersions == {3, 0, 2147483647}

RequestInners ==
    [kind : {"Open"},
     params : [filename : ReqPaths, flags : ReqOpenFlags, attrs : ReqAttrs]]
    \cup [kind : {"Close", "Readdir", "Fstat", "Fsync"}, handle : ReqHandles]
    \cup [kind : {"Read"}, handle : ReqHandles, offset : ReqOffsets, len : ReqLens]
    \cup [kind : {"Remove", "Rmdir", "Opendir", "Stat", "Lstat", "Readlink", "Realpath",
                  "ExpandPath"}, path : ReqPaths]
    \cup [kind : {"Rename", "HardLink", "PosixRename"},
          oldpath : ReqPaths, newpath : ReqNewPaths]
    \cup [kind : {"Mkdir", "Setstat", "Lsetstat"}, path : ReqPaths, attrs : ReqAttrs]
    \cup [kind : {"Fsetstat"}, handle : ReqHandles, attrs : ReqAttrs]
    \cup [kind : {"Symlink"}, linkpath : ReqPaths, targetpath : ReqNewPaths]
    \cup [kind : {"Limits"}]
    \cup [kind : {"Cp"}, read_from_handle : ReqHandles, read_from_offset : ReqOffsets,
          read_data_length : {u64_from(0), u64_from(32768)}, write_to_handle : ReqHandles,
          write_to_offset : {u64_from(0), u64_from(1024)}]
    \cup [kind : {"Write"}, handle : ReqHandles, offset : ReqOffsets, data : ReqData]

Requests == [request_id : RequestIds, inner : RequestInners]

WriteHeaders ==
    [request_id : RequestIds, handle : ReqHandles, offset : ReqOffsets,
     data_len : 0..MaxDataLen]

\* The most bytes the serializer holds when a request is serialized into it:
\* nothing, or the Hello.
MaxBuffered == 5
\* The most bytes the serializer holds when serialize_write_request is called:
\* the header of an earlier write, or a request as long.
MaxHeld == 23

\* Serializer::reset leaving the buffer as it is.
reset_keeps_buffer(buffer) == buffer

\* Serializer::reset: the buffer is emptied.
reset(buffer) == <<>>

(***************************************************************************)
(* The caller's serializer: a request is serialized after what the buffer  *)
(* holds (a caller resets the serializer after an error), and              *)
(* serialize_write_request resets it first.  call.serializer is the buffer *)
(* the call was given.                                                     *)
(***************************************************************************)
SerializeHello(version) ==
    /\ ret.ok
    /\ Len(ser) <= MaxBuffered
    /\ ser' = ser \o Hello_serialize(version).val
    /\ call' = [op |-> "Hello::serialize", arg |-> version, serializer |-> ser]
    /\ ret' = IF Hello_serialize(version).ok THEN Unit
              ELSE Err(Hello_serialize(version).err)
    /\ UNCHANGED <<attrs, arena, boxes, threads>>

SerializeRequest(r) ==
    /\ ret.ok
    /\ Len(ser) <= MaxBuffered
    /\ ser' = ser \o Request_serialize(r.request_id, r.inner).val
    /\ call' = [op |-> "Request::serialize", arg |-> r, serializer |-> ser]
    /\ ret' = IF Request_serialize(r.request_id, r.inner).ok THEN Unit
              ELSE Err(Request_serialize(r.request_id, r.inner).err)
    /\ UNCHANGED <<attrs, arena, boxes, threads>>

SerializeWriteRequest(w) ==
    /\ Len(ser) <= MaxHeld
    /\ ser' = reset(ser)
               \o serialize_write_request_header(w.request_id, w.handle, w.offset,
                                                 w.data_len).val
    /\ call' = [op |-> "serialize_write_request", arg |-> w, serializer |-> ser]
    /\ ret' = Ok(get_output_with_data(ser', w.data_len), <<>>)
    /\ UNCHANGED <<attrs, arena, boxes, threads>>

\* Serializer::reset
Reset ==
    /\ ser # <<>>
    /\ ser' = reset(ser)
    /\ call' = [op |-> "reset", arg |-> <<>>]
    /\ ret' = Unit
    /\ UNCHANGED <<attrs, arena, boxes, threads>>

NextRequest ==
    \/ \E version \in HelloVersions : SerializeHello(version)
    \/ \E r \in Requests : SerializeRequest(r)
    \/ \E w \in WriteHeaders : SerializeWriteRequest(w)
    \/ Reset

SpecRequest == Init /\ [][NextRequest]_vars

(***************************************************************************)
(* Claims about the request encoder.                                       *)
(***************************************************************************)
\* The opcode the request table gives a kind.
TableOpcode(kind) ==
    CASE kind = "Open" -> 3
      [] kind = "Close" -> 4
      [] kind = "Read" -> 5
      [] kind = "Write" -> 6
      [] kind = "Lstat" -> 7
      [] kind = "Fstat" -> 8
      [] kind = "Setstat" -> 9
      [] kind = "Fsetstat" -> 10
      [] kind = "Opendir" -> 11
      [] kind = "Readdir" -> 12
      [] kind = "Remove" -> 13
      [] kind = "Mkdir" -> 14
      [] kind = "Rmdir" -> 15
      [] kind = "Realpath" -> 16
      [] kind = "Stat" -> 17
      [] kind = "Rename" -> 18
      [] kind = "Readlink" -> 19
      [] kind = "Symlink" -> 20
      [] OTHER -> 200

\* The extension name an extended kind carries, as a byte string; nothing for
\* the other kinds.
TableExtensionName(kind) ==
    CASE kind = "Limits" -> Bytes(EXT_NAME_LIMITS[1])
      [] kind = "ExpandPath" -> Bytes(EXT_NAME_EXPAND_PATH[1])
      [] kind = "Lsetstat" -> Bytes(EXT_NAME_LSETSTAT[1])
      [] kind = "Fsync" -> Bytes(EXT_NAME_FSYNC[1])
      [] kind = "HardLink" -> Bytes(EXT_NAME_HARDLINK[1])
      [] kind = "PosixRename" -> Bytes(EXT_NAME_POSIX_RENAME[1])
      [] kind = "Cp" -> Bytes(EXT_NAME_COPY_DATA[1])
      [] OTHER -> <<>>

\* The payload fields of a kind in the order of the request table.
TablePayload(inner) ==
    CASE inner.kind = "Open" ->
               Bytes(inner.params.filename) \o U32(inner.params.flags)
               \o FileAttrs_serialize(inner.params.attrs)
      [] inner.kind \in {"Close", "Fstat", "Readdir", "Fsync"} -> Bytes(inner.handle)
      [] inner.kind = "Read" -> Bytes(inner.handle) \o U64(inner.offset) \o U32(inner.len)
      [] inner.kind = "Write" ->
               Bytes(inner.handle) \o U64(inner.offset) \o Bytes(inner.data)
      [] inner.kind \in {"Lstat", "Opendir", "Remove", "Rmdir", "Realpath", "Stat",
                         "Readlink", "ExpandPath"} -> Bytes(inner.path)
      [] inner.kind \in {"Setstat", "Mkdir", "Lsetstat"} ->
               Bytes(inner.path) \o FileAttrs_serialize(inner.attrs)
      [] inner.kind = "Fsetstat" -> Bytes(inner.handle) \o FileAttrs_serialize(inner.attrs)
      [] inner.kind \in {"Rename", "HardLink", "PosixRename"} ->
               Bytes(inner.oldpath) \o Bytes(inner.newpath)
      [] inner.kind = "Symlink" -> Bytes(inner.targetpath) \o Bytes(inner.linkpath)
      [] inner.kind = "Limits" -> <<>>
      [] inner.kind = "Cp" ->
               Bytes(inner.read_from_handle) \o U64(inner.read_from_offset)
               \o U64(inner.read_data_length) \o Bytes(inner.write_to_handle)
               \o U64(inner.write_to_offset)

\* The paths of a request.
PathsOf(inner) ==
    CASE inner.kind = "Open" -> {inner.params.filename}
      [] inner.kind \in {"Lstat", "Opendir", "Remove", "Rmdir", "Realpath", "Stat",
                         "Readlink", "ExpandPath", "Setstat", "Mkdir", "Lsetstat"} ->
               {inner.path}
      [] inner.kind \in {"Rename", "HardLink", "PosixRename"} ->
               {inner.oldpath, inner.newpath}
      [] inner.kind = "Symlink" -> {inner.targetpath, inner.linkpath}
      [] OTHER -> {}

\* C9: a serialized request is the opcode of its kind, the request_id as a
\* big-endian u32, the extension name for an extended kind (opcode 200), then
\* the payload fields in the tabled order; Hello is the opcode 1 and the version;
\* Close with request_id 7 and handle AA BB is 04 00 00 00 07 00 00 00 02 AA BB and
\* Hello with version 3 is 01 00 00 00 03.  A request whose paths are UTF-8
\* serializes.
C9_RequestEncoding ==
    /\ call.op = "Hello::serialize" =>
           /\ ret.ok
           /\ ser = call.serializer \o <<1>> \o U32(call.arg)
           /\ (call.arg = 3 /\ call.serializer = <<>>) => ser = <<1, 0, 0, 0, 3>>
    /\ call.op = "Request::serialize" =>
           /\ (\A path \in PathsOf(call.arg.inner) : IsUtf8(path)) <=> ret.ok
           /\ ret.ok =>
                  /\ ser = call.serializer
                           \o <<TableOpcode(call.arg.inner.kind)>>
                           \o U32(call.arg.request_id)
                           \o TableExtensionName(call.arg.inner.kind)
                           \o TablePayload(call.arg.inner)
                  /\ SubSeq(Drop(ser, Len(call.serializer)), 2, 5) = U32(call.arg.request_id)
           /\ (/\ call.arg = [request_id |-> 7,
                              inner |-> [kind |-> "Close", handle |-> <<170, 187>>]]
               /\ call.serializer = <<>>) =>
                  ser = <<4, 0, 0, 0, 7, 0, 0, 0, 2, 170, 187>>

\* A Symlink request with two different paths and the id 0x01020304 has been
\* serialized, the targetpath first.
C9_Witness ==
    /\ call.op = "Request::serialize"
    /\ call.serializer = <<>>
    /\ call.arg.inner.kind = "Symlink"
    /\ call.arg.request_id = 16909060
    /\ call.arg.inner.targetpath = <<99>>
    /\ call.arg.inner.linkpath = <<47, 98, 195, 169>>
    /\ ret.ok
    /\ ser = <<20, 1, 2, 3, 4, 0, 0, 0, 1, 99, 0, 0, 0, 4, 47, 98, 195, 169>>

\* The Write request of a header and a data.
WriteOf(w, data) ==
    [request_id |-> w.request_id,
     inner |-> [kind |-> "Write", handle |-> w.handle, offset |-> w.offset, data |-> data]]

\* The whole encoding of the Write request.
WriteEncoding(w, data) ==
    Request_serialize(WriteOf(w, data).request_id, WriteOf(w, data).inner).val

\* C10: serialize_write_request leaves in the serializer the opcode 6, the
\* request_id, the handle, the offset and the data_len, with no payload bytes;
\* for every data of data_len bytes these are the encoding of the Write request
\* less its last data_len bytes, and the output with its 4-byte size is the
\* output of the Write request less its last data_len bytes.
C10_WriteHeaderOnly ==
    call.op = "serialize_write_request" =>
        /\ ret.ok
        /\ ser = <<6>> \o U32(call.arg.request_id) \o Bytes(call.arg.handle)
                 \o U64(call.arg.offset) \o U32(call.arg.data_len)
        /\ \A data \in [1..call.arg.data_len -> {0, 255}] :
               /\ ser = Take(WriteEncoding(call.arg, data),
                             Len(WriteEncoding(call.arg, data)) - call.arg.data_len)
               /\ ret.val = Take(get_output(WriteEncoding(call.arg, data)),
                                 4 + Len(WriteEncoding(call.arg, data)) - call.arg.data_len)

\* The header of a write of two bytes at offset 0 to the handle AA BB, request_id
\* 7, has been serialized: 27 bytes under the size 25.
C10_Witness ==
    /\ call.op = "serialize_write_request"
    /\ call.arg.data_len = 2
    /\ call.arg.handle = <<170, 187>>
    /\ call.arg.request_id = 7
    /\ call.arg.offset = u64_from(0)
    /\ ret.ok
    /\ ret.val = <<0, 0, 0, 25, 6, 0, 0, 0, 7, 0, 0, 0, 2, 170, 187,
                   0, 0, 0, 0, 0, 0, 0, 0, 0, 0, 0, 2>>

\* C11: what a serialization writes is a function of the value serialized,
\* whatever the serializer held: Hello and Request serialization append the
\* encoding of the value to the buffer, and serialize_write_request leaves and
\* returns what it leaves and returns on an empty serializer.
C11_HistoryIndependent ==
    /\ call.op = "Hello::serialize" =>
           ser = call.serializer \o Hello_serialize(call.arg).val
    /\ call.op = "Request::serialize" =>
           ser = call.serializer
                 \o Request_serialize(call.arg.request_id, call.arg.inner).val
    /\ call.op = "serialize_write_request" =>
           /\ ser = serialize_write_request_header(
                        call.arg.request_id, call.arg.handle, call.arg.offset,
                        call.arg.data_len).val
           /\ ret.val = get_output_with_data(
                            serialize_write_request_header(
                                call.arg.request_id, call.arg.handle, call.arg.offset,
                                call.arg.data_len).val,
                            call.arg.data_len)

\* serialize_write_request has been called on a serializer that held an earlier
\* Close request, and has returned the 23 bytes of its header alone.
C11_Witness ==
    /\ call.op = "serialize_write_request"
    /\ call.serializer = <<4, 0, 0, 0, 7, 0, 0, 0, 2, 170, 187>>
    /\ call.arg.handle = <<>>
    /\ call.arg.data_len = 1
    /\ Len(ret.val) = 25
    /\ ret.val[5] = 6

(***************************************************************************)
(* More claims about the response decoder.                                 *)
(***************************************************************************)
NameDecoded == call.op = "Response::deserialize" /\ call.arg.body.kind = "name"

\* The decoded entry carries what the wire triple carries.
EntryOfTriple(entry, triple) ==
    /\ entry.filename = triple.filename
    /\ entry.longname = triple.longname
    /\ entry.attrs = FileAttrs_deserialize(WireAttrsBlock(triple.attrs)).val
    /\ get_size(entry.attrs) = triple.attrs.size
    /\ get_id(entry.attrs) = triple.attrs.id
    /\ get_time(entry.attrs) = triple.attrs.time
    /\ Present(get_permissions(entry.attrs)) = Present(triple.attrs.mode)
    /\ triple.attrs.mode # None => entry.attrs.st_mode = triple.attrs.mode[1]

\* C12: a complete Name response with declared count n and n well-formed
\* triples decodes to exactly n entries, the i-th entry carrying the filename,
\* longname and attrs of the i-th triple of the wire; count 0 decodes to the
\* empty list.
C12_NameEntriesInWireOrder ==
    NameDecoded =>
        /\ WireResponseWellFormed(call.arg) => ret.ok
        /\ ret.ok =>
               /\ ret.val.response_inner.kind = "Name"
               /\ Len(ret.val.response_inner.entries) = Len(call.arg.body.entries)
               /\ \A i \in 1..Len(call.arg.body.entries) :
                      EntryOfTriple(ret.val.response_inner.entries[i],
                                    call.arg.body.entries[i])
        /\ (call.arg.body.entries = <<>> /\ call.arg.cut = 0) =>
               ret.ok /\ ret.val.response_inner.entries = <<>>

\* A Name response with the entries "b" then "a" has been decoded to two
\* entries in that order.
C12_Witness ==
    /\ NameDecoded
    /\ ret.ok
    /\ Len(ret.val.response_inner.entries) = 2
    /\ ret.val.response_inner.entries[1].filename = <<98>>
    /\ get_size(ret.val.response_inner.entries[1].attrs) = Some(u64_from(2333))
    /\ ret.val.response_inner.entries[2].filename = <<97>>
    /\ call.arg.body.entries[1].filename = <<98>>

DataDecoded ==
    /\ call.op = "Response::deserialize"
    /\ call.arg.body.kind = "data"
    /\ Len(WireResponseBytes(call.arg)) >= 5

\* Bytes that may follow the response id of a Data response.
DataTails ==
    {<<>>, <<0>>, <<0, 0, 0, 3, 1, 2, 3>>, <<0, 0, 0, 9, 1>>, <<255, 255, 255, 255>>}

\* C13: decoding a Data response reads the opcode and the response id only:
\* it succeeds whatever follows, the Response is the same for every
\* continuation, and the bytes after the response id are left unread;
\* is_data is true of the opcode 103 and of no other.
C13_DataPayloadLeftUnread ==
    /\ DataDecoded =>
           /\ ret.ok
           /\ ret.val = [response_id |-> call.arg.id, response_inner |-> [kind |-> "Data"]]
           /\ ret.rest = Drop(WireResponseBytes(call.arg), 5)
           /\ \A tail \in DataTails :
                  LET other == Response_deserialize(
                                   Take(WireResponseBytes(call.arg), 5) \o tail,
                                   call.arg.granted)
                  IN  other.ok /\ other.val = ret.val /\ other.rest = tail
    /\ call.op = "Response::deserialize" /\ WireResponseBytes(call.arg) # <<>> =>
           (is_data(WireResponseBytes(call.arg)[1]) <=> call.arg.body.kind = "data")
    /\ \A packet_type \in 0..255 : is_data(packet_type) <=> packet_type = 103

\* A Data response with three bytes of data has been decoded, the data left
\* behind the response id.
C13_Witness ==
    /\ DataDecoded
    /\ call.arg.cut = 0
    /\ ret.ok
    /\ ret.val.response_inner.kind = "Data"
    /\ ret.rest = <<0, 0, 0, 3, 1, 2, 3>>

\* The packet type of an extended reply, from the table of packet types.
SSH_FXP_EXTENDED_REPLY == 201

ExtendedReplyDecoded ==
    /\ call.op = "Response::deserialize"
    /\ call.arg.body.kind = "other"
    /\ call.arg.body.type = SSH_FXP_EXTENDED_REPLY
    /\ Len(WireResponseBytes(call.arg)) >= 5

\* C14: an extended-reply packet (opcode 201) is accepted by the response
\* decoder like a Data response: no invalid-packet-type error, the response
\* id decoded and the opaque body left unread for the caller.
C14_ExtendedReplyAccepted ==
    ExtendedReplyDecoded =>
        /\ ret.ok
        /\ ret.val.response_id = call.arg.id
        /\ ret.rest = Drop(WireResponseBytes(call.arg), 5)

\* What the decoder does with opcode 201: the invalid-packet-type error.
ExtendedReplyRejected ==
    ExtendedReplyDecoded =>
        /\ ~ret.ok
        /\ ret.err = "InvalidValue"
        /\ ret.expected = "Invalid packet type"

(***************************************************************************)
(* More claims about the attribute codec.                                  *)
(***************************************************************************)
\* The name of a file-type subfield, for the seven POSIX types.
PosixTypeName(filetype) ==
    CASE filetype = 49152 -> "Socket"
      [] filetype = 40960 -> "Symlink"
      [] filetype = 32768 -> "RegularFile"
      [] filetype = 24576 -> "BlockDevice"
      [] filetype = 16384 -> "Directory"
      [] filetype = 8192 -> "CharacterDevice"
      [] filetype = 4096 -> "FIFO"
      [] OTHER -> "none"

\* The attrs block g with the mode word m in the place of its own.
WithMode(g, m) == [g EXCEPT !.mode = Some(m)]

FileTypeChecked(g, r) ==
    LET filetype == BitAnd(g.mode[1], 61440) IN
    /\ r.ok <=> (filetype = 0 \/ PosixTypeName(filetype) # "none")
    /\ r.ok =>
           /\ r.val.st_mode = g.mode[1]
           /\ get_filetype(r.val) =
                  (IF filetype = 0 THEN None ELSE Some(PosixTypeName(filetype)))
    /\ ~r.ok => r = InvalidValue("Expected valid filetype specified in POSIX")

\* C15: decoding a FileAttrs with the PERMISSIONS flag succeeds only if
\* mode & 0o170000 is 0 or one of the seven POSIX types; for each of the eight
\* other values of the subfield decoding fails with an InvalidValue error and
\* no FileAttrs is returned.
C15_FileTypeValidated ==
    (call.op = "deserialize" /\ call.arg.mode # None) =>
        /\ FileTypeChecked(call.arg, ret)
        /\ ~ret.ok => attrs = FileAttrs_new
        /\ \A t \in 0..15 :
               FileTypeChecked(WithMode(call.arg, t * 4096 + 420),
                               FileAttrs_deserialize(
                                   WireAttrsBytes(WithMode(call.arg, t * 4096 + 420))))

\* An attrs block with a size and the mode 0o030644 has been refused.
C15_Witness ==
    /\ call.op = "deserialize"
    /\ call.arg.size # None
    /\ call.arg.mode = Some(12288 + 420)
    /\ ret = InvalidValue("Expected valid filetype specified in POSIX")
    /\ attrs = FileAttrs_new

\* The mode word in the encoding of the decoded value of a decode with the
\* PERMISSIONS flag: it follows the flags word, the size and the ids.
ReencodedMode ==
    WordVal(SubSeq(FileAttrs_serialize(ret.val),
                   5 + 8 * Present(call.arg.size) + 8 * Present(call.arg.id),
                   8 + 8 * Present(call.arg.size) + 8 * Present(call.arg.id)))

ModeDecoded == call.op = "deserialize" /\ call.arg.mode # None /\ ret.ok

\* C16: decoding a FileAttrs whose mode word carries bits outside the named
\* Permissions bits (0o7777) and encoding the decoded value emits a mode word
\* with those bits unchanged.
C16_UnknownModeBitsPreserved ==
    ModeDecoded =>
        BitClear(ReencodedMode, Permissions_all) = BitClear(call.arg.mode[1], Permissions_all)

\* What the codec does: the decoded value keeps the whole mode word, and its
\* encoding carries the named Permissions bits of it and no other bit.
ModeTruncatedOnEncode ==
    ModeDecoded =>
        /\ ret.val.st_mode = call.arg.mode[1]
        /\ ReencodedMode = BitAnd(call.arg.mode[1], Permissions_all)

\* Permissions values: nothing, each of the twelve named bits, all of them.
PermissionsSample ==
    {0, 1, 2, 4, 8, 16, 32, 64, 128, 256, 512, 1024, 2048, Permissions_all}

\* C17: for every Permissions p, a FileAttrs on which set_permissions(p) was
\* called, encoded and decoded again, has get_permissions() = Some(p).
C17_PermissionsRoundTrip ==
    /\ call.op = "set_permissions" =>
           /\ RoundTrip(attrs).ok
           /\ get_permissions(RoundTrip(attrs).val) = Some(call.arg)
    /\ \A p \in PermissionsSample :
           /\ RoundTrip(set_permissions(attrs, p)).ok
           /\ get_permissions(RoundTrip(set_permissions(attrs, p)).val) = Some(p)

\* set_permissions(SET_UID | rwxr-xr-x) has been called on a value decoded
\* with the mode of a regular file rw-r--r--, and the encoding of the result
\* decodes to these permissions.
C17_Witness ==
    /\ call.op = "set_permissions"
    /\ call.arg = 2541
    /\ attrs.st_mode = S_IFREG + 2541
    /\ get_size(attrs) # None
    /\ get_permissions(FileAttrs_deserialize(FileAttrs_serialize(attrs)).val) = Some(2541)

\* C18: a call of set_permissions(p) leaves the file type as it was (the
\* file-type bits of the mode and get_filetype()), makes get_permissions()
\* return p, sets the PERMISSIONS flag and no other, and leaves size, uid/gid,
\* atime/mtime and their getters unchanged.
C18_SetPermissionsKeepsFileType ==
    [][call'.op = "set_permissions" =>
           /\ get_filetype(attrs') = get_filetype(attrs)
           /\ BitAnd(attrs'.st_mode, S_IFMT) = BitAnd(attrs.st_mode, S_IFMT)
           /\ get_permissions(attrs') = Some(call'.arg)
           /\ attrs'.flags = BitOr(attrs.flags, FLAG_PERMISSIONS)
           /\ get_size(attrs') = get_size(attrs)
           /\ get_id(attrs') = get_id(attrs)
           /\ get_time(attrs') = get_time(attrs)
           /\ attrs'.size = attrs.size
           /\ attrs'.uid = attrs.uid /\ attrs'.gid = attrs.gid
           /\ attrs'.atime = attrs.atime /\ attrs'.mtime = attrs.mtime]_vars

\* set_permissions(WRITE_BY_OTHER) has been called on the attrs of a directory
\* rwxr-xr-x decoded from the wire; the value is still a directory.
C18_Witness ==
    /\ call.op = "set_permissions"
    /\ call.arg = 2
    /\ attrs.st_mode = S_IFDIR + 2
    /\ get_filetype(attrs) = Some("Directory")
    /\ get_permissions(attrs) = Some(2)
    /\ get_time(attrs) # None

\* The same flags, and the same content in each field whose flag is set; the
\* mode field is the permission bits and the file-type bits.
SamePresentFields(a, b) ==
    /\ a.flags = b.flags
    /\ has_attr(a, FLAG_SIZE) => a.size = b.size
    /\ has_attr(a, FLAG_ID) => a.uid = b.uid /\ a.gid = b.gid
    /\ has_attr(a, FLAG_PERMISSIONS) =>
           BitAnd(a.st_mode, S_IFMT + Permissions_all)
               = BitAnd(b.st_mode, S_IFMT + Permissions_all)
    /\ has_attr(a, FLAG_TIME) => a.atime = b.atime /\ a.mtime = b.mtime

\* The value a with other content stored in each field whose flag is clear.
Refilled(a) ==
    [flags |-> a.flags,
     size |-> IF has_attr(a, FLAG_SIZE) THEN a.size ELSE u64_from(77),
     uid |-> IF has_attr(a, FLAG_ID) THEN a.uid ELSE 78,
     gid |-> IF has_attr(a, FLAG_ID) THEN a.gid ELSE 79,
     st_mode |-> IF has_attr(a, FLAG_PERMISSIONS) THEN a.st_mode ELSE S_IFDIR + 493,
     atime |-> IF has_attr(a, FLAG_TIME) THEN a.atime ELSE 80,
     mtime |-> IF has_attr(a, FLAG_TIME) THEN a.mtime ELSE 81]

Decoded(g) == FileAttrs_deserialize(WireAttrsBytes(g)).val

\* Values to compare the current one with: made by the setters and decoded.
EqSample ==
    {FileAttrs_new,
     set_size(FileAttrs_new, u64_from(0)),
     set_size(FileAttrs_new, u64_from(2333)),
     set_id(FileAttrs_new, 0, 0),
     set_id(FileAttrs_new, 1000, 2147483647),
     set_permissions(FileAttrs_new, 0),
     set_permissions(FileAttrs_new, 420),
     set_time(FileAttrs_new, 0, 0),
     set_time(FileAttrs_new, 2, 150),
     set_time(set_size(FileAttrs_new, u64_from(2333)), 2, 150),
     Decoded([size |-> None, id |-> None, mode |-> Some(S_IFREG + 420), time |-> None,
              ext |-> None, junk |-> FALSE, trailer |-> <<>>]),
     Decoded([size |-> None, id |-> None, mode |-> Some(S_IFSOCK + 2), time |-> None,
              ext |-> None, junk |-> FALSE, trailer |-> <<>>]),
     Decoded([size |-> Some(u64_from(2333)), id |-> Some(<<1000, 2147483647>>),
              mode |-> Some(S_IFDIR + 493), time |-> Some(<<2, 150>>),
              ext |-> None, junk |-> FALSE, trailer |-> <<>>]),
     Decoded([size |-> Some(u64_from(2333)), id |-> Some(<<1000, 2147483647>>),
              mode |-> Some(2), time |-> Some(<<2, 150>>),
              ext |-> None, junk |-> FALSE, trailer |-> <<>>])}

\* C19: two FileAttrs values are equal exactly when they have the same flags
\* and the same content in the fields whose flag is set, whatever is stored in
\* the fields whose flag is clear: a value is equal to itself with other
\* content in its absent fields, and values that differ in the fields present
\* or in a present field are unequal.
C19_EqualityOverPresentFields ==
    /\ FileAttrs_eq(attrs, Refilled(attrs))
    /\ \A b \in EqSample :
           /\ FileAttrs_eq(attrs, b) <=> SamePresentFields(attrs, b)
           /\ FileAttrs_eq(attrs, Refilled(b)) <=> SamePresentFields(attrs, b)
           /\ FileAttrs_eq(Refilled(b), attrs) <=> FileAttrs_eq(attrs, b)

\* The current value has a size and the permissions WRITE_BY_OTHER without a
\* file type: it is equal to itself with other ids and times stored, and
\* unequal to the attrs of a socket with the same size and permissions.
C19_Witness ==
    /\ has_attr(attrs, FLAG_SIZE)
    /\ attrs.flags = FLAG_SIZE + FLAG_PERMISSIONS
    /\ attrs.st_mode = 2
    /\ Refilled(attrs) # attrs
    /\ FileAttrs_eq(attrs, Refilled(attrs))
    /\ ~FileAttrs_eq(attrs, set_size(Decoded([size |-> None, id |-> None,
                                               mode |-> Some(S_IFSOCK + 2), time |-> None,
                                               ext |-> None, junk |-> FALSE,
                                               trailer |-> <<>>]), attrs.size))

Setters == {"set_size", "set_id", "set_permissions", "set_time"}

\* C20: the value made by new() has no field present; a call of a setter
\* makes its getter return Some of the value passed, leaves what every other
\* getter returns as it was, and clears no flag. So after any sequence of
\* setter calls each getter returns the value of the latest call of its
\* setter, or None when there was none.
C20_GettersReturnLatestSet ==
    /\ attrs = FileAttrs_new
    /\ get_size(attrs) = None /\ get_id(attrs) = None
    /\ get_permissions(attrs) = None /\ get_time(attrs) = None
    /\ [][call'.op \in Setters =>
              /\ get_size(attrs') =
                     (IF call'.op = "set_size" THEN Some(call'.arg) ELSE get_size(attrs))
              /\ get_id(attrs') =
                     (IF call'.op = "set_id" THEN Some(call'.arg) ELSE get_id(attrs))
              /\ get_permissions(attrs') =
                     (IF call'.op = "set_permissions" THEN Some(call'.arg)
                      ELSE get_permissions(attrs))
              /\ get_time(attrs') =
                     (IF call'.op = "set_time" THEN Some(call'.arg) ELSE get_time(attrs))
              /\ BitAnd(attrs'.flags, attrs.flags) = attrs.flags
              /\ \A flag \in {FLAG_SIZE, FLAG_ID, FLAG_PERMISSIONS, FLAG_TIME} :
                     has_attr(attrs, flag) => has_attr(attrs', flag)]_vars

\* The four setters have been called with values no decoded block of the
\* model holds, set_size last; each getter returns the value set.
C20_Witness ==
    /\ call.op = "set_size"
    /\ call.arg = u64_from(0)
    /\ attrs.flags = FLAG_SIZE + FLAG_ID + FLAG_PERMISSIONS + FLAG_TIME
    /\ get_size(attrs) = Some(u64_from(0))
    /\ get_id(attrs) = Some(<<0, 0>>)
    /\ get_permissions(attrs) = Some(2541)
    /\ get_filetype(attrs) = None
    /\ get_time(attrs) = Some(<<0, 0>>)

(***************************************************************************)
(* OpenOptions (open_options.rs): the builder of an Open request.          *)
(* constants: the pflags bits.                                             *)
(***************************************************************************)
SSH_FXF_READ == 1
SSH_FXF_WRITE == 2
SSH_FXF_APPEND == 4
SSH_FXF_CREAT == 8
SSH_FXF_TRUNC == 16
SSH_FXF_EXCL == 32

OpenOptions_new == [read |-> FALSE, write |-> FALSE, append |-> FALSE]

OpenOptions_read(self, read) == [self EXCEPT !.read = read]

get_read(self) == self.read

OpenOptions_write(self, write) == [self EXCEPT !.write = write]

get_write(self) == self.write \/ self.append

OpenOptions_append(self, append) == [self EXCEPT !.append = append]

get_append(self) == self.append

\* OpenOptions_open with append not implying write.
OpenOptions_open_append_alone(self, filename) ==
    [filename |-> filename,
     flags |-> BitOr(BitOr(IF self.read THEN SSH_FXF_READ ELSE 0,
                           IF self.write THEN SSH_FXF_WRITE ELSE 0),
                     IF self.append THEN SSH_FXF_APPEND ELSE 0),
     attrs |-> FileAttrs_new]

OpenOptions_open(self, filename) ==
    [filename |-> filename,
     flags |-> BitOr(BitOr(IF self.read THEN SSH_FXF_READ ELSE 0,
                           IF self.write \/ self.append THEN SSH_FXF_WRITE ELSE 0),
                     IF self.append THEN SSH_FXF_APPEND ELSE 0),
     attrs |-> FileAttrs_new]

\* enum CreateFlags, as u32
CreateFlags_as_u32(flags) ==
    CASE flags = "None" -> 0
      [] flags = "Trunc" -> SSH_FXF_TRUNC
      [] flags = "Excl" -> SSH_FXF_EXCL

OpenOptions_create(self, filename, flags, a) ==
    [OpenOptions_open(self, filename) EXCEPT
         !.flags = BitOr(@, BitOr(SSH_FXF_CREAT, CreateFlags_as_u32(flags))),
         !.attrs = a]

\* OpenFileRequest::open: open file in read only mode
OpenFileRequest_open(filename) ==
    OpenOptions_open(OpenOptions_read(OpenOptions_new, TRUE), filename)

(***************************************************************************)
(* The life of a builder: new(), then read, write and append in any order, *)
(* and open or create from the builder held, which is Copy.  call.last     *)
(* keeps the argument of the latest call of each of the three setters.     *)
(***************************************************************************)
CreateFlags == {"None", "Trunc", "Excl"}

BuilderOps == {"OpenOptions::new", "read", "write", "append"}

HoldsOptions == call.op \in BuilderOps \cup {"open", "create"}

\* The builder the caller holds.
Options == IF call.op \in BuilderOps THEN ret.val ELSE call.self

NewOptions ==
    /\ call.op = "new"
    /\ call' = [op |-> "OpenOptions::new", arg |-> <<>>, self |-> OpenOptions_new,
                last |-> [read |-> FALSE, write |-> FALSE, append |-> FALSE]]
    /\ ret' = Ok(OpenOptions_new, <<>>)
    /\ UNCHANGED <<attrs, ser, arena, boxes, threads>>

OptionsRead(b) ==
    /\ HoldsOptions
    /\ call' = [op |-> "read", arg |-> b, self |-> Options,
                last |-> [call.last EXCEPT !.read = b]]
    /\ ret' = Ok(OpenOptions_read(Options, b), <<>>)
    /\ UNCHANGED <<attrs, ser, arena, boxes, threads>>

OptionsWrite(b) ==
    /\ HoldsOptions
    /\ call' = [op |-> "write", arg |-> b, self |-> Options,
                last |-> [call.last EXCEPT !.write = b]]
    /\ ret' = Ok(OpenOptions_write(Options, b), <<>>)
    /\ UNCHANGED <<attrs, ser, arena, boxes, threads>>

OptionsAppend(b) ==
    /\ HoldsOptions
    /\ call' = [op |-> "append", arg |-> b, self |-> Options,
                last |-> [call.last EXCEPT !.append = b]]
    /\ ret' = Ok(OpenOptions_append(Options, b), <<>>)
    /\ UNCHANGED <<attrs, ser, arena, boxes, threads>>

OptionsOpen(filename) ==
    /\ HoldsOptions
    /\ call' = [op |-> "open", arg |-> filename, self |-> Options, last |-> call.last]
    /\ ret' = Ok(OpenOptions_open(Options, filename), <<>>)
    /\ UNCHANGED <<attrs, ser, arena, boxes, threads>>

OptionsCreate(filename, flags, a) ==
    /\ HoldsOptions
    /\ call' = [op |-> "create", arg |-> <<filename, flags, a>>, self |-> Options,
                last |-> call.last]
    /\ ret' = Ok(OpenOptions_create(Options, filename, flags, a), <<>>)
    /\ UNCHANGED <<attrs, ser, arena, boxes, threads>>

OpenReadOnly(filename) ==
    /\ call.op = "new"
    /\ call' = [op |-> "OpenFileRequest::open", arg |-> filename]
    /\ ret' = Ok(OpenFileRequest_open(filename), <<>>)
    /\ UNCHANGED <<attrs, ser, arena, boxes, threads>>

NextOpenOptions ==
    \/ NewOptions
    \/ \E b \in BOOLEAN : OptionsRead(b)
    \/ \E b \in BOOLEAN : OptionsWrite(b)
    \/ \E b \in BOOLEAN : OptionsAppend(b)
    \/ \E filename \in ReqPaths : OptionsOpen(filename)
    \/ \E filename \in ReqPaths, flags \in CreateFlags, a \in ReqAttrs :
           OptionsCreate(filename, flags, a)
    \/ \E filename \in ReqPaths : OpenReadOnly(filename)

SpecOpenOptions == Init /\ [][NextOpenOptions]_vars

(***************************************************************************)
(* Claims about OpenOptions.                                               *)
(***************************************************************************)
\* The pflags of the table for the latest arguments of read, write and append.
TablePflags(last) ==
    (IF last.read THEN 1 ELSE 0)
    + (IF last.write \/ last.append THEN 2 ELSE 0)
    + (IF last.append THEN 4 ELSE 0)

TableCreateFlag(flags) ==
    CASE flags = "None" -> 0 [] flags = "Trunc" -> 16 [] flags = "Excl" -> 32

\* C21: with the latest argument of each of read, write and append (false when
\* it was never called), open(path) returns the path, the pflags
\* (read ? 1 : 0) | (write or append ? 2 : 0) | (append ? 4 : 0) and the
\* default attrs; create(path, flag, attrs) returns the same pflags or-ed with
\* 8 and the flag (None 0, Trunc 16, Excl 32) and the attrs supplied;
\* get_write() is true exactly when the WRITE bit is emitted.
C21_PflagsOfOpenOptions ==
    HoldsOptions =>
        /\ Options = call.last
        /\ get_read(Options) = call.last.read
        /\ get_append(Options) = call.last.append
        /\ get_write(Options) <=> BitAnd(TablePflags(call.last), 2) # 0
        /\ get_write(Options) <=>
               BitAnd(OpenOptions_open(Options, <<97>>).flags, SSH_FXF_WRITE) # 0
        /\ call.op = "open" =>
               ret.val = [filename |-> call.arg, flags |-> TablePflags(call.last),
                          attrs |-> FileAttrs_new]
        /\ call.op = "create" =>
               ret.val = [filename |-> call.arg[1],
                          flags |-> TablePflags(call.last) + 8
                                    + TableCreateFlag(call.arg[2]),
                          attrs |-> call.arg[3]]

\* create(path, Excl, attrs) has been called on a builder whose latest calls
\* were read(false), write(false) and append(true), with attrs that hold a
\* size: the pflags are WRITE | APPEND | CREAT | EXCL.
C21_Witness ==
    /\ call.op = "create"
    /\ call.last = [read |-> FALSE, write |-> FALSE, append |-> TRUE]
    /\ call.arg[2] = "Excl"
    /\ get_size(call.arg[3]) = Some(u64_from(2333))
    /\ ret.val.flags = 46
    /\ ret.val.attrs = call.arg[3]

(***************************************************************************)
(* Extensions (extensions.rs): pairs of strings kept in one                *)
(* vec_strings::Strings, modelled as the sequence of its strings, names    *)
(* at the odd places and data at the even ones.                            *)
(*                                                                         *)
(* A u32 index is held as its two 16-bit halves [hi, lo], so that          *)
(* index * 2 is computed at the width of the u32.                          *)
(***************************************************************************)
Wide(hi, lo) == [hi |-> hi, lo |-> lo]

\* index.wrapping_mul(2)
wrapping_mul2(index) ==
    Wide((index.hi * 2 + (index.lo * 2) \div 65536) % 65536, (index.lo * 2) % 65536)

\* whether index * 2 exceeds u32::MAX
mul2_overflows(index) == index.hi * 2 + (index.lo * 2) \div 65536 >= 65536

Panic(message) == [ok |-> FALSE, err |-> "panic", message |-> message]

\* impl Default for Extensions (derived): no string
Extensions_empty == <<>>

\* Extensions_new accepting every Strings.
Extensions_new_any(strs) == Some(strs)

\* Extensions::new
Extensions_new(strs) == IF Len(strs) % 2 = 0 THEN Some(strs) ELSE None

add_extension(self, name, data) == Append(Append(self, name), data)

\* Strings::get
Strings_get(strs, index) ==
    IF index.hi = 0 /\ index.lo < Len(strs) THEN Some(strs[index.lo + 1]) ELSE None

\* Extensions::get.  index * 2 panics when it overflows in a build with
\* overflow checks (debug) and wraps in a build without them (release).
Extensions_get(self, index, overflow_checks) ==
    IF overflow_checks /\ mul2_overflows(index)
    THEN Panic("attempt to multiply with overflow")
    ELSE IF Strings_get(self, wrapping_mul2(index)) = None THEN Ok(None, <<>>)
    ELSE IF Strings_get(self, Wide(wrapping_mul2(index).hi,
                                   wrapping_mul2(index).lo + 1)) = None
    THEN Panic("called Option::unwrap() on a None value")
    ELSE Ok(Some(<<Strings_get(self, wrapping_mul2(index))[1],
                   Strings_get(self, Wide(wrapping_mul2(index).hi,
                                          wrapping_mul2(index).lo + 1))[1]>>), <<>>)

Extensions_len(self) == Len(self) \div 2

Extensions_is_empty(self) == self = <<>>

\* ExtensionsIter::next until None: Some((self.0.next()?, self.0.next().unwrap()))
RECURSIVE Extensions_iter(_)
Extensions_iter(self) ==
    IF self = <<>> THEN <<>>
    ELSE IF Len(self) = 1 THEN <<"panic">>
    ELSE <<<<self[1], self[2]>>>> \o Extensions_iter(Drop(self, 2))

RECURSIVE SerPairs(_)
SerPairs(pairs) ==
    IF pairs = <<>> THEN <<>>
    ELSE Bytes(pairs[1][1]) \o Bytes(pairs[1][2]) \o SerPairs(Tail(pairs))

\* impl Serialize for Extensions
Extensions_serialize(self) ==
    U32(Extensions_len(self)) \o SerPairs(Extensions_iter(self))

\* deserializer.deserialize_tuple(2, ExtensionsVisitor(0)): the length passed.
TupleLen == 2

\* ExtensionsVisitor::get_next with self.0 = read elements taken so far:
\* seq.next_element()?, a None becoming invalid_length(self.0, ..).  The
\* SeqAccess is the deserializer's.  One that counts the length passed to
\* deserialize_tuple hands out no element past it (counted); one that does not
\* reads the next element from the input whatever the length.
ExtensionsVisitor_get_next(element, read, counted) ==
    IF counted /\ read >= TupleLen
    THEN InvalidLength(read, "A u32 length and &[str]")
    ELSE element

\* for _ in 0..len { extensions.add_extension(get_next()?, get_next()?) }
RECURSIVE ReadExtensionPairs(_, _, _, _, _)
ReadExtensionPairs(b, len, extensions, read, counted) ==
    IF len = 0 THEN Ok(extensions, b)
    ELSE Try(ExtensionsVisitor_get_next(GetStr(b), read, counted), LAMBDA name :
         Try(ExtensionsVisitor_get_next(GetStr(name.rest), read + 1, counted), LAMBDA data :
             ReadExtensionPairs(data.rest, len - 1,
                                add_extension(extensions, name.val, data.val),
                                read + 2, counted)))

\* Extensions::reserve(extensions): Strings::reserve(extensions * 2).  Room for
\* no string allocates nothing; any other is a request to the allocator, and
\* granted says whether it grants it.  When it does not, the process aborts.
Extensions_reserve(self, extensions, granted) ==
    IF extensions > 0 /\ ~granted
    THEN Abort("memory allocation failed")
    ELSE Ok(self, <<>>)

\* impl Deserialize for Extensions: deserialize_tuple(2, ExtensionsVisitor(0))
\* and ExtensionsVisitor::visit_seq
Extensions_deserialize(b, granted, counted) ==
    Try(ExtensionsVisitor_get_next(GetU32(b), 0, counted), LAMBDA len :
    Try(Extensions_reserve(Extensions_empty, len.val, granted), LAMBDA extensions :
        ReadExtensionPairs(len.rest, len.val, extensions.val, 1, counted)))

(***************************************************************************)
(* The life of an Extensions value: made by default(), new(strs) or        *)
(* decoding, grown by add_extension and read.  call.self is the value the  *)
(* caller holds after the call (None: it holds none), call.added the pairs *)
(* it has passed to add_extension.                                         *)
(***************************************************************************)
\* The most pairs an Extensions value of the model holds.
MaxExtensions == 2

\* "a", "bc"
ExtensionNames == {<<97>>, <<98, 99>>}
\* "", "1"
ExtensionData == {<<>>, <<49>>}

NewStrs == SeqsUpTo({<<97>>, <<49>>}, MaxExtensions + 1)

\* Pairs on the wire; the name of the third is not UTF-8.
WireExtensionPairs == {<< <<97>>, <<>> >>, << <<98, 99>>, <<49>> >>, << <<255>>, <<49>> >>}

\* What a peer sends: the pairs, a count that may declare one pair or 2^31 - 8
\* pairs more than there are, and bytes cut from the end; granted is the
\* allocator's answer to the reserve, a refusal being drawn for the counts
\* that declare 2^31 - 8 pairs more than there are; counted is whether the
\* deserializer the caller decodes with counts the tuple length.
WireExtensions ==
    {w \in [pairs : SeqsUpTo(WireExtensionPairs, MaxExtensions), more : {0, 1, 2147483640},
            cut : 0..MaxCut, granted : BOOLEAN, counted : BOOLEAN] :
         w.granted \/ w.more = 2147483640}

WireExtensionsBytes(w) ==
    Take(U32(Len(w.pairs) + w.more) \o SerPairs(w.pairs),
         Len(U32(Len(w.pairs) + w.more) \o SerPairs(w.pairs)) - w.cut)

\* 0, 1, 2, 3, 65536, 2^31, 2^31 + 1, 2^32 - 1
Indices ==
    {Wide(0, 0), Wide(0, 1), Wide(0, 2), Wide(0, 3), Wide(1, 0), Wide(32768, 0),
     Wide(32768, 1), Wide(65535, 65535)}

ExtensionsOps ==
    {"Extensions::default", "Extensions::new", "Extensions::deserialize",
     "add_extension", "Extensions::get", "Extensions::len", "Extensions::is_empty",
     "Extensions::iter", "Extensions::serialize"}

HoldsExtensions == call.op \in ExtensionsOps /\ call.self # None

Held == call.self[1]

ExtensionsDefault ==
    /\ call.op = "new"
    /\ call' = [op |-> "Extensions::default", arg |-> <<>>, self |-> Some(Extensions_empty),
                added |-> <<>>, origin |-> "default"]
    /\ ret' = Ok(Extensions_empty, <<>>)
    /\ UNCHANGED <<attrs, ser, arena, boxes, threads>>

ExtensionsNew(strs) ==
    /\ call.op = "new"
    /\ call' = [op |-> "Extensions::new", arg |-> strs, self |-> Extensions_new(strs),
                added |-> <<>>, origin |-> "new"]
    /\ ret' = Ok(Extensions_new(strs), <<>>)
    /\ UNCHANGED <<attrs, ser, arena, boxes, threads>>

ExtensionsDeserialize(w) ==
    /\ call.op = "new"
    /\ call' = [op |-> "Extensions::deserialize", arg |-> w,
                self |-> IF Extensions_deserialize(WireExtensionsBytes(w), w.granted,
                                                   w.counted).ok
                         THEN Some(Extensions_deserialize(WireExtensionsBytes(w), w.granted,
                                                          w.counted).val)
                         ELSE None,
                added |-> <<>>, origin |-> "deserialize"]
    /\ ret' = Extensions_deserialize(WireExtensionsBytes(w), w.granted, w.counted)
    /\ UNCHANGED <<attrs, ser, arena, boxes, threads>>

AddExtension(name, data) ==
    /\ HoldsExtensions
    /\ Extensions_len(Held) < MaxExtensions
    /\ call' = [op |-> "add_extension", arg |-> <<name, data>>,
                self |-> Some(add_extension(Held, name, data)),
                added |-> Append(call.added, <<name, data>>), origin |-> call.origin]
    /\ ret' = Unit
    /\ UNCHANGED <<attrs, ser, arena, boxes, threads>>

ExtensionsGet(index, overflow_checks) ==
    /\ HoldsExtensions
    /\ call' = [call EXCEPT !.op = "Extensions::get",
                            !.arg = [index |-> index, overflow_checks |-> overflow_checks]]
    /\ ret' = Extensions_get(Held, index, overflow_checks)
    /\ UNCHANGED <<attrs, ser, arena, boxes, threads>>

ExtensionsLen ==
    /\ HoldsExtensions
    /\ call' = [call EXCEPT !.op = "Extensions::len", !.arg = <<>>]
    /\ ret' = Ok(Extensions_len(Held), <<>>)
    /\ UNCHANGED <<attrs, ser, arena, boxes, threads>>

ExtensionsIsEmpty ==
    /\ HoldsExtensions
    /\ call' = [call EXCEPT !.op = "Extensions::is_empty", !.arg = <<>>]
    /\ ret' = Ok(Extensions_is_empty(Held), <<>>)
    /\ UNCHANGED <<attrs, ser, arena, boxes, threads>>

ExtensionsIter ==
    /\ HoldsExtensions
    /\ call' = [call EXCEPT !.op = "Extensions::iter", !.arg = <<>>]
    /\ ret' = Ok(Extensions_iter(Held), <<>>)
    /\ UNCHANGED <<attrs, ser, arena, boxes, threads>>

ExtensionsSerialize ==
    /\ HoldsExtensions
    /\ call' = [call EXCEPT !.op = "Extensions::serialize", !.arg = <<>>]
    /\ ret' = Ok(Extensions_serialize(Held), <<>>)
    /\ UNCHANGED <<attrs, ser, arena, boxes, threads>>

NextExtensions ==
    \/ ExtensionsDefault
    \/ \E strs \in NewStrs : ExtensionsNew(strs)
    \/ \E w \in WireExtensions : ExtensionsDeserialize(w)
    \/ \E name \in ExtensionNames, data \in ExtensionData : AddExtension(name, data)
    \/ \E index \in Indices, overflow_checks \in BOOLEAN : ExtensionsGet(index, overflow_checks)
    \/ ExtensionsLen
    \/ ExtensionsIsEmpty
    \/ ExtensionsIter
    \/ ExtensionsSerialize

SpecExtensions == Init /\ [][NextExtensions]_vars

(***************************************************************************)
(* Claims about Extensions.                                                *)
(***************************************************************************)
\* C22: every Extensions value the caller can hold (from default(), from
\* new(strs), from decoding, and after add_extension calls on these) has an
\* even number of strings; new(strs) returns None exactly when strs has an
\* odd number of strings, and otherwise the value made of strs.
C22_EvenStringCount ==
    /\ HoldsExtensions => Len(Held) % 2 = 0
    /\ call.op = "Extensions::new" =>
           /\ ret.val = None <=> Len(call.arg) % 2 = 1
           /\ ret.val # None => ret.val = Some(call.arg)
    /\ (call.op = "Extensions::deserialize" /\ ret.ok) =>
           Len(ret.val) = 2 * (Len(call.arg.pairs) + call.arg.more)

\* new(strs) has accepted two strings and add_extension has added a pair to
\* the value: four strings.
C22_Witness ==
    /\ call.op = "add_extension"
    /\ call.origin = "new"
    /\ Len(Held) = 4
    /\ Held[1] = <<97>> /\ Held[2] = <<49>>

\* The caller holds a value made by default() and its add_extension calls.
GrownFromEmpty == HoldsExtensions /\ call.origin = "default"

\* Whether the index is below k, for k below 65536.
IndexBelow(index, k) == index.hi = 0 /\ index.lo < k

\* What get(index) returns after the calls of call.added, by the claim.
TableGet(index) ==
    IF IndexBelow(index, Len(call.added)) THEN Some(call.added[index.lo + 1]) ELSE None

\* C23: after k add_extension calls on an empty Extensions, len() is k,
\* is_empty() holds iff k = 0, iter() yields the k pairs in insertion order,
\* and for every u32 index i get(i) returns Some of the pair of call i when
\* i < k and None when i >= k, the indices with 2 * i beyond the u32 range
\* included.
C23_ObserversOfAddedPairs ==
    GrownFromEmpty =>
        /\ Extensions_len(Held) = Len(call.added)
        /\ Extensions_is_empty(Held) <=> Len(call.added) = 0
        /\ Extensions_iter(Held) = call.added
        /\ call.op = "Extensions::len" => ret.val = Len(call.added)
        /\ call.op = "Extensions::is_empty" => ret.val = (call.added = <<>>)
        /\ call.op = "Extensions::iter" => ret.val = call.added
        /\ call.op = "Extensions::get" => ret = Ok(TableGet(call.arg.index), <<>>)

\* What the code does: the same, for every index i with 2 * i within the u32
\* range; for the other indices get(i) panics in a build with overflow
\* checks and returns what get(i - 2^31) returns in a build without.
ObserversWithinU32Range ==
    GrownFromEmpty =>
        /\ Extensions_len(Held) = Len(call.added)
        /\ Extensions_is_empty(Held) <=> Len(call.added) = 0
        /\ Extensions_iter(Held) = call.added
        /\ call.op = "Extensions::len" => ret.val = Len(call.added)
        /\ call.op = "Extensions::is_empty" => ret.val = (call.added = <<>>)
        /\ call.op = "Extensions::iter" => ret.val = call.added
        /\ (call.op = "Extensions::get" /\ ~mul2_overflows(call.arg.index)) =>
               ret = Ok(TableGet(call.arg.index), <<>>)
        /\ (call.op = "Extensions::get" /\ mul2_overflows(call.arg.index)) =>
               ret = (IF call.arg.overflow_checks
                      THEN Panic("attempt to multiply with overflow")
                      ELSE Ok(TableGet(Wide(call.arg.index.hi - 32768,
                                            call.arg.index.lo)), <<>>))

\* get(2^31) on a value with one pair has returned that pair in a build
\* without overflow checks.
GetWrapped ==
    /\ GrownFromEmpty
    /\ call.op = "Extensions::get"
    /\ call.arg = [index |-> Wide(32768, 0), overflow_checks |-> FALSE]
    /\ Len(call.added) = 1
    /\ ret = Ok(Some(call.added[1]), <<>>)

\* Each string of the sequence as a length-prefixed byte string, in order.
RECURSIVE StringsOnWire(_)
StringsOnWire(strs) ==
    IF strs = <<>> THEN <<>> ELSE Bytes(strs[1]) \o StringsOnWire(Tail(strs))

\* C24: the encoding of an Extensions value is the u32 number N of its pairs
\* followed by its 2N strings, name then data in pair order, and decoding the
\* encoding, with whichever deserializer the caller has, consumes it all and
\* returns a value equal to the one encoded.
C24_ExtensionsRoundTrip ==
    HoldsExtensions =>
        /\ Extensions_serialize(Held) = U32(Len(Held) \div 2) \o StringsOnWire(Held)
        /\ \A counted \in BOOLEAN :
               Extensions_deserialize(Extensions_serialize(Held), TRUE, counted) = Ok(Held, <<>>)

\* The encoding is as C24 says, and a deserializer that does not count the
\* tuple length decodes it to the value encoded.
RoundTripWhereLengthNotCounted ==
    HoldsExtensions =>
        /\ Extensions_serialize(Held) = U32(Len(Held) \div 2) \o StringsOnWire(Held)
        /\ Extensions_deserialize(Extensions_serialize(Held), TRUE, FALSE) = Ok(Held, <<>>)
        /\ call.op = "Extensions::serialize" =>
               /\ Take(ret.val, 4) = <<0, 0, 0, Len(Held) \div 2>>
               /\ Drop(ret.val, 4) = StringsOnWire(Held)
               /\ Extensions_deserialize(ret.val, TRUE, FALSE).ok
               /\ Extensions_deserialize(ret.val, TRUE, FALSE).val = Held
               /\ Extensions_deserialize(ret.val, TRUE, FALSE).rest = <<>>

\* A deserializer that counts the tuple length decodes the encoding of the
\* empty value only: past the count and one name it hands out no element, and
\* the data of the first pair is refused as element 2 of a tuple of 2.
LengthCountedRefusesPairs ==
    HoldsExtensions =>
        Extensions_deserialize(Extensions_serialize(Held), TRUE, TRUE)
            = (IF Held = <<>> THEN Ok(Held, <<>>)
               ELSE InvalidLength(TupleLen, "A u32 length and &[str]"))

\* Whatever the deserializer, a refused reserve ends the process when the
\* value has pairs.
ReserveRefused ==
    HoldsExtensions =>
        \A counted \in BOOLEAN :
            Extensions_deserialize(Extensions_serialize(Held), FALSE, counted)
                = (IF Held = <<>> THEN Ok(Held, <<>>) ELSE Abort("memory allocation failed"))

(***************************************************************************)
(* UnixTimeStamp and SystemTime (file_attrs.rs).  A SystemTime is the      *)
(* whole seconds since the epoch, rounded down and held as hi * 65536 + lo *)
(* with lo in 0..65535 and hi negative before the epoch, and the           *)
(* nanoseconds above them; a raw u32 timestamp is Wide(hi, lo) with hi in  *)
(* 0..65535.                                                               *)
(***************************************************************************)
SystemTime(hi, lo, nanos) == [hi |-> hi, lo |-> lo, nanos |-> nanos]

\* SystemTime::duration_since(UNIX_EPOCH): the time elapsed, or an error when
\* the time is earlier than the epoch.
duration_since_epoch(system_time) ==
    IF system_time.hi < 0 THEN Err("TooEarly") ELSE Ok(system_time, <<>>)

\* u32::try_from(duration.as_secs())
secs_try_into_u32(duration) ==
    IF duration.hi > 65535 THEN Err("TooLarge") ELSE Ok(Wide(duration.hi, duration.lo), <<>>)

\* UnixTimeStamp_new with the seconds clamped to u32::MAX.
UnixTimeStamp_new_saturating(system_time) ==
    Try(duration_since_epoch(system_time), LAMBDA duration :
        IF duration.val.hi > 65535 THEN Ok(Wide(65535, 65535), <<>>)
        ELSE Ok(Wide(duration.val.hi, duration.val.lo), <<>>))

\* UnixTimeStamp::new
UnixTimeStamp_new(system_time) ==
    Try(duration_since_epoch(system_time), LAMBDA duration :
        secs_try_into_u32(duration.val))

unix_epoch == Wide(0, 0)

\* UNIX_EPOCH + Duration::from_secs(self.0 as u64)
as_system_time(self) == SystemTime(self.hi, self.lo, 0)

(***************************************************************************)
(* Timestamps made from wall-clock times, and from raw seconds and back.   *)
(***************************************************************************)
\* Whole seconds from -2^32 to beyond 2^32, around the ends of the u32 range.
WallClockTimes ==
    {SystemTime(hi, lo, nanos) :
         hi \in {-65536, -1, 0, 1, 32767, 32768, 65535, 65536, 70000},
         lo \in {0, 1, 65535},
         nanos \in {0, 1, 999999999}}

RawSeconds == {Wide(hi, lo) : hi \in {0, 1, 32767, 32768, 65535}, lo \in {0, 1, 65534, 65535}}

TimeStampNew(system_time) ==
    /\ call.op = "new"
    /\ call' = [op |-> "UnixTimeStamp::new", arg |-> system_time, raw |-> None,
                from |-> "SystemTime"]
    /\ ret' = UnixTimeStamp_new(system_time)
    /\ UNCHANGED <<attrs, ser, arena, boxes, threads>>

TimeStampFromRaw(elapsed) ==
    /\ call.op = "new"
    /\ call' = [op |-> "UnixTimeStamp::from_raw", arg |-> elapsed]
    /\ ret' = Ok(from_raw(elapsed), <<>>)
    /\ UNCHANGED <<attrs, ser, arena, boxes, threads>>

UnixEpoch ==
    /\ call.op = "new"
    /\ call' = [op |-> "UnixTimeStamp::unix_epoch", arg |-> <<>>]
    /\ ret' = Ok(unix_epoch, <<>>)
    /\ UNCHANGED <<attrs, ser, arena, boxes, threads>>

\* The timestamp the caller holds after from_raw or unix_epoch.
HoldsTimeStamp ==
    \/ call.op = "UnixTimeStamp::unix_epoch"
    \/ call.op = "UnixTimeStamp::from_raw" /\ ret.val # None

TimeStampHeld == IF call.op = "UnixTimeStamp::unix_epoch" THEN ret.val ELSE ret.val[1]

AsSystemTime ==
    /\ HoldsTimeStamp
    /\ call' = [op |-> "as_system_time", arg |-> TimeStampHeld, from |-> call.op]
    /\ ret' = Ok(as_system_time(TimeStampHeld), <<>>)
    /\ UNCHANGED <<attrs, ser, arena, boxes, threads>>

\* UnixTimeStamp::new of the SystemTime as_system_time returned.
TimeStampNewOfRaw ==
    /\ call.op = "as_system_time"
    /\ call' = [op |-> "UnixTimeStamp::new", arg |-> ret.val,
                raw |-> Some(into_raw(call.arg)), from |-> call.from]
    /\ ret' = UnixTimeStamp_new(ret.val)
    /\ UNCHANGED <<attrs, ser, arena, boxes, threads>>

NextTimeStamp ==
    \/ \E system_time \in WallClockTimes : TimeStampNew(system_time)
    \/ \E elapsed \in RawSeconds : TimeStampFromRaw(elapsed)
    \/ UnixEpoch
    \/ AsSystemTime
    \/ TimeStampNewOfRaw

SpecTimeStamp == Init /\ [][NextTimeStamp]_vars

\* C25: UnixTimeStamp::new(t) fails with TooEarly when t precedes the epoch,
\* fails with TooLarge when the whole seconds since the epoch exceed 2^32 - 1,
\* and otherwise succeeds with exactly the whole seconds of t; for a raw s,
\* new(from_raw(s).as_system_time()) is the timestamp of raw value s.
C25_TimeStampRange ==
    call.op = "UnixTimeStamp::new" =>
        /\ call.arg.hi < 0 => ret = Err("TooEarly")
        /\ call.arg.hi >= 65536 => ret = Err("TooLarge")
        /\ call.arg.hi \in 0..65535 =>
               /\ ret.ok
               /\ into_raw(ret.val) = Wide(call.arg.hi, call.arg.lo)
        /\ call.raw # None => ret.ok /\ into_raw(ret.val) = call.raw[1]

\* new has been given 2^32 - 1 seconds and 999999999 nanoseconds and has
\* returned the timestamp 2^32 - 1.
C25_Witness ==
    /\ call.op = "UnixTimeStamp::new"
    /\ call.arg = SystemTime(65535, 65535, 999999999)
    /\ ret.ok
    /\ into_raw(ret.val) = Wide(65535, 65535)

\* new(from_raw(2^32 - 2).as_system_time()) has returned 2^32 - 2.
TimeStampRoundTripped ==
    /\ call.op = "UnixTimeStamp::new"
    /\ call.raw = Some(Wide(65535, 65534))
    /\ ret = Ok(Wide(65535, 65534), <<>>)

(***************************************************************************)
(* Truncated response packets.                                             *)
(***************************************************************************)
\* The packet as sent, nothing cut.
Whole(p) == WireResponseBytes([p EXCEPT !.cut = 0])

\* The packet ends before a field it requires: something is cut from what the
\* opcode requires (for Data, the response id alone), or the Name count
\* declares more entries than follow.
FieldsMissing(p) ==
    \/ p.body.kind = "name_count"
    \/ /\ p.cut > 0
       /\ p.body.kind = "data" => Len(WireResponseBytes(p)) < 5

\* The call returned an error to its caller.
ReturnedError(r) == ~r.ok /\ r.err # "abort" /\ DOMAIN r \cap {"val", "rest"} = {}

\* C26: a response packet that ends before every field its opcode (and its
\* attrs flags, and its Name count) requires has been read, or inside a byte
\* string whose declared length is more than what remains, makes the decoder
\* return an error, with no Response, FileAttrs or entry list in it.
C26_TruncatedPacketsRejected ==
    call.op = "Response::deserialize" =>
        /\ FieldsMissing(call.arg) => ReturnedError(ret)
        /\ (ret.ok /\ call.arg.cut = 0) =>
               \A n \in 1..Len(Whole(call.arg)) :
                   (call.arg.body.kind = "data" => Len(Whole(call.arg)) - n < 5) =>
                       ReturnedError(Response_deserialize(
                           Take(Whole(call.arg), Len(Whole(call.arg)) - n),
                           call.arg.granted))

\* What the decoder does: the same wherever the allocation of the entry list
\* is granted, the error being the end of input when the fields are valid as
\* far as they go; a Name response whose count asks for more than the
\* allocator grants ends the process before an entry is read.
TruncatedPacketsWhereAllocated ==
    call.op = "Response::deserialize" =>
        /\ ~ret.ok => DOMAIN ret \cap {"val", "rest"} = {}
        /\ (FieldsMissing(call.arg) /\ call.arg.granted) => ReturnedError(ret)
        /\ (/\ FieldsMissing(call.arg)
            /\ call.arg.body.kind \notin {"other", "name_count"}
            /\ WireResponseWellFormed([call.arg EXCEPT !.cut = 0])) => ret = Err("Eof")
        /\ (call.arg.body.kind = "name_count" /\ Len(WireResponseBytes(call.arg)) >= 9) =>
               ret = (IF call.arg.granted THEN Err("Eof")
                      ELSE Abort("memory allocation failed"))
        /\ (ret.ok /\ call.arg.cut = 0) =>
               \A n \in 1..Len(Whole(call.arg)) :
                   (call.arg.body.kind = "data" => Len(Whole(call.arg)) - n < 5) =>
                       Response_deserialize(Take(Whole(call.arg), Len(Whole(call.arg)) - n),
                                            call.arg.granted) = Err("Eof")

\* A Name response of two entries, cut one byte short inside the last
\* extension string of its second entry, has been refused.
NameCutShort ==
    /\ call.op = "Response::deserialize"
    /\ call.arg.body.kind = "name"
    /\ call.arg.cut = 1
    /\ Len(call.arg.body.entries) = 2
    /\ call.arg.body.entries[2].attrs.ext # None
    /\ ret = Err("Eof")

(***************************************************************************)
(* FileAttrsBox (file_attrs.rs): a FileAttrs in a slot of the process-wide *)
(* arena.  Threads run new and clone step by step: get_or_init on the      *)
(* cell, SharedArena::new in the one thread that found it empty, then      *)
(* alloc.  once_cell and shared_arena are taken by their contracts: while  *)
(* a thread runs the initialiser the others wait, and alloc hands out a    *)
(* slot that is not in use, atomically.  A setter needs the box            *)
(* exclusively (&mut), so it does not run on a box a clone is reading.     *)
(***************************************************************************)
\* *self.0 of a live box
BoxValue(b) == arena.mem[boxes[b].slot]

\* Boxes a clone in progress has borrowed.
Borrowed == {threads[t].src : t \in {u \in Threads : threads[u].pc # "idle"}}

\* The values a caller boxes.
BoxedValues == {FileAttrs_new}

\* The responses decoded among the calls on boxes: an Attrs response with a
\* size, and a Handle response, which holds no box.
ArenaResponses ==
    {p \in WireResponses :
         /\ p.id = CHOOSE i \in Ids : TRUE
         /\ p.cut = 0
         /\ \/ p.body.kind = "attrs" /\ p.body.attrs = [WireAttrsEmpty EXCEPT !.size = Some(u64_from(2333))]
            \/ p.body.kind = "handle" /\ p.body.handle = CHOOSE h \in WireHandles : TRUE}

\* FileAttrsBox::new(file_attrs): the call starts.
BoxNew(t, file_attrs) ==
    /\ threads[t].pc = "idle"
    /\ threads' = [threads EXCEPT ![t] = [pc |-> "get_or_init", val |-> file_attrs,
                                          src |-> 0, de |-> None]]
    /\ call' = [op |-> "FileAttrsBox::new", thread |-> t, box |-> 0]
    /\ ret' = Unit
    /\ UNCHANGED <<attrs, ser, arena, boxes>>

\* FileAttrsBox::clone: Self::new(*self.0), the value read when the call starts.
BoxClone(t, b) ==
    /\ threads[t].pc = "idle"
    /\ b \in LiveBoxes
    /\ threads' = [threads EXCEPT ![t] = [pc |-> "get_or_init", val |-> BoxValue(b),
                                          src |-> b, de |-> None]]
    /\ call' = [op |-> "FileAttrsBox::clone", thread |-> t, box |-> b]
    /\ ret' = Unit
    /\ UNCHANGED <<attrs, ser, arena, boxes>>

\* A setter through DerefMut: set_size on the value of the box.
BoxSetSize(t, b, size) ==
    /\ threads[t].pc = "idle"
    /\ b \in LiveBoxes \ Borrowed
    /\ arena' = [arena EXCEPT !.mem[boxes[b].slot] = set_size(@, size)]
    /\ call' = [op |-> "FileAttrsBox::set_size", thread |-> t, box |-> b]
    /\ ret' = Unit
    /\ UNCHANGED <<attrs, ser, boxes, threads>>

\* The box dropped: its slot is free again, its value gone.
BoxDrop(t, b) ==
    /\ threads[t].pc = "idle"
    /\ b \in LiveBoxes \ Borrowed
    /\ arena' = [arena EXCEPT !.used = @ \ {boxes[b].slot},
                              !.mem[boxes[b].slot] = FileAttrs_new]
    /\ boxes' = [c \in BoxIds |-> IF c = b THEN NoBox
                                  ELSE IF boxes[c].from = b THEN [boxes[c] EXCEPT !.from = 0]
                                  ELSE boxes[c]]
    /\ call' = [op |-> "drop", thread |-> t, box |-> b]
    /\ ret' = Unit
    /\ UNCHANGED <<attrs, ser, threads>>

NextArena ==
    \/ \E t \in Threads, file_attrs \in BoxedValues : BoxNew(t, file_attrs)
    \/ \E t \in Threads, p \in ArenaResponses : DecodeResponse(t, p)
    \/ \E t \in Threads, b \in BoxIds : BoxClone(t, b)
    \/ \E t \in Threads : GetOrInit(t)
    \/ \E t \in Threads : ArenaNew(t)
    \/ \E t \in Threads, slot \in Slots, b \in BoxIds : Alloc(t, slot, b)
    \/ \E t \in Threads, b \in BoxIds : BoxSetSize(t, b, u64_from(7))
    \/ \E t \in Threads, b \in BoxIds : BoxDrop(t, b)

SpecArena == Init /\ [][NextArena]_vars

\* The calls that write through a box.
BoxSetters == {"FileAttrsBox::set_size"}

\* SharedArena::new has run at most once, and once when a thread is past
\* get_or_init or a box is live.
InitialisedOnce ==
    /\ arena.inits <= 1
    /\ (LiveBoxes # {} \/ \E t \in Threads : threads[t].pc = "alloc") => arena.inits = 1
    /\ arena.cell = "full" <=> arena.inits = 1

\* Each live box has a slot in use that no other live box has.
UniquelyOwned ==
    /\ \A b \in LiveBoxes : boxes[b].slot \in arena.used
    /\ \A b, c \in LiveBoxes : boxes[b].slot = boxes[c].slot => b = c

\* The step of a new or clone that returns the box: the box holds the value
\* given to new, or the value of the box cloned when clone was called, which
\* is still the value of that box.
BoxReturned ==
    /\ call'.op = "SharedArena::alloc"
        => /\ arena'.mem[boxes'[call'.box].slot] = ret'.val
           /\ call'.src # 0 => /\ call'.src # call'.box
                               /\ arena'.mem[boxes'[call'.src].slot] = ret'.val
                               /\ boxes'[call'.src] = boxes[call'.src]
    /\ call'.op = "Response::deserialize" /\ call'.box # 0
        => /\ arena'.mem[boxes'[call'.box].slot] = ret'.val.response_inner.attrs
           /\ ret' = Response_deserialize(WireResponseBytes(call'.arg), call'.arg.granted)

\* The step of a setter through one box: what every other live box reads is
\* what it read before.
OthersUntouched ==
    call'.op \in BoxSetters
        => \A c \in LiveBoxes \ {call'.box} :
               /\ boxes'[c] = boxes[c]
               /\ arena'.mem[boxes'[c].slot] = arena.mem[boxes[c].slot]

\* C27: under every interleaving of FileAttrsBox::new, clone and setter calls
\* from several threads, the arena is initialised exactly once, each live box
\* has a slot of its own, and a setter through one box leaves the value read
\* through every other box, the box it was cloned from included, as it was.
C27_ArenaOnceBoxesUniquelyOwned ==
    /\ [](InitialisedOnce /\ UniquelyOwned)
    /\ [][BoxReturned /\ OthersUntouched]_vars

\* Both threads found the cell empty or full in turn, one ran SharedArena::new,
\* and a setter has just written through a clone whose source is live and
\* still reads the value it had.
C27_Witness ==
    /\ call.op = "FileAttrsBox::set_size"
    /\ arena.inits = 1
    /\ boxes[call.box].from \in LiveBoxes
    /\ BoxValue(call.box) = set_size(FileAttrs_new, u64_from(7))
    /\ BoxValue(boxes[call.box].from) = FileAttrs_new
    /\ \E t \in Threads : threads[t].pc = "alloc"

(***************************************************************************)
(* The file-type subfield of the mode held by a FileAttrs.                 *)
(***************************************************************************)
FileTypeSubfield(a) == BitAnd(a.st_mode, S_IFMT)

\* C28: in every FileAttrs made by new, by a decode that succeeded, and by
\* setters after either, the file-type subfield of the mode is 0 or one of
\* the seven POSIX types, get_filetype does not panic, and it returns None
\* exactly when the PERMISSIONS flag is unset or the subfield is 0.
C28_FileTypeSubfieldValid ==
    /\ FileTypeSubfield(attrs) \in PosixTypes \cup {0}
    /\ get_filetype(attrs) # Some("panic")
    /\ get_filetype(attrs) = None
           <=> ~has_attr(attrs, FLAG_PERMISSIONS) \/ FileTypeSubfield(attrs) = 0

\* A regular file decoded from a server, its permissions then replaced and
\* its size set: the type is still read back.
C28_Witness ==
    /\ call.op = "set_size"
    /\ attrs.st_mode = S_IFREG + 2541
    /\ get_filetype(attrs) = Some("RegularFile")
    /\ get_permissions(attrs) = Some(2541)
    /\ get_size(attrs) = Some(call.arg)

(***************************************************************************)
(* The extension set as a function of the set of announced pairs.          *)
(***************************************************************************)
\* The pairs a packet announces, as a set.
PairSet(l) == {l[i] : i \in 1..Len(l)}

\* The packets of the model that announce the same set of pairs as l, in any
\* order and with any repetition.
SameAnnouncements(l) ==
    {k \in SeqsUpTo(PairSet(l), MaxVersionPairs) : PairSet(k) = PairSet(l)}

\* What decoding returns for the packet p with the pairs k in place of its own.
DecodedWithPairs(p, k) ==
    ServerVersion_deserialize(WireVersionBytes([p EXCEPT !.pairs = k]))

\* Every flag set in e is set in f.
FlagsKept(e, f) == \A field \in DOMAIN e : e[field] => f[field]

\* C29: the version and the extension set returned for a version packet are
\* those returned for every packet that announces the same set of pairs in
\* another order or with pairs repeated, and each pair scanned leaves every
\* flag set that was set before it.
C29_ExtensionSetOfPairSet ==
    VersionDecoded =>
        /\ ret.ok
        /\ \A k \in SameAnnouncements(call.arg.pairs) : DecodedWithPairs(call.arg, k) = ret
        /\ \A n \in 1..Len(call.arg.pairs) :
               FlagsKept(DecodedWithPairs(call.arg, Take(call.arg.pairs, n - 1)).val.extensions,
                         DecodedWithPairs(call.arg, Take(call.arg.pairs, n)).val.extensions)

\* posix-rename announced at revision 1 and then at revision 2: the flag set by
\* the first pair is still set after the second, as it is for the pairs in
\* the other order.
C29_Witness ==
    /\ VersionDecoded
    /\ call.arg.pairs = << <<EXT_NAME_POSIX_RENAME[1], <<49>>>>,
                           <<EXT_NAME_POSIX_RENAME[1], <<50>>>> >>
    /\ ret.ok
    /\ ret.val.extensions.posix_rename
    /\ Cardinality(SameAnnouncements(call.arg.pairs)) = 2

(***************************************************************************)
(* ServerVersion::deserialize run one loop iteration at a time: the call   *)
(* record holds the unread bytes of the deserializer (de), the version     *)
(* read and the extension set so far, until the function returns.          *)
(***************************************************************************)
\* The body of the loop with a pair whose name is not UTF-8 skipped where it
\* stands, nothing read.
PairIteration_skip_unread(de, extensions) ==
    Try(GetBytes(de), LAMBDA name :
        IF ~from_utf8(name.val).ok THEN Ok(extensions, de)
        ELSE Try(GetBytes(name.rest), LAMBDA revision :
                 Ok(ParsePair(extensions, name.val, revision.val), revision.rest)))

\* The body of the loop: name and revision read, then parsed and matched; the
\* extension set after the iteration and the bytes left unread.
PairIteration(de, extensions) ==
    Try(GetBytes(de), LAMBDA name :
    Try(GetBytes(name.rest), LAMBDA revision :
        Ok(ParsePair(extensions, name.val, revision.val), revision.rest)))

\* The lines before the loop: the packet type checked and the version read.
VersionHeader(bytes) ==
    Try(GetU8(bytes), LAMBDA packet_type :
        IF packet_type.val # SSH_FXP_VERSION THEN Err("Unexpected response")
        ELSE GetU32(packet_type.rest))

\* Pairs of the packets decoded step by step: one of the table, one with a
\* name that is not UTF-8, one with a revision that is no number, and one of
\* two empty strings.
LoopPairs ==
    {<<EXT_NAME_FSYNC[1], <<49>>>>, << <<192, 128>>, <<49>> >>,
     << <<120, 64, 121>>, <<49, 97>> >>, << <<>>, <<>> >>}

\* What follows the complete pairs: nothing, a name alone, a name and half of
\* a length prefix, a name and a revision of declared length 2 with one byte.
LoopTails ==
    {<<>>,
     Bytes(EXT_NAME_FSYNC[1]),
     Bytes(EXT_NAME_FSYNC[1]) \o <<0, 0>>,
     Bytes(EXT_NAME_FSYNC[1]) \o U32(2) \o <<49>>}

WireVersionLoops ==
    [type : {2, 101}, version : {3}, pairs : SeqsUpTo(LoopPairs, MaxVersionPairs),
     tail : LoopTails]

WireVersionLoopBytes(p) ==
    U8(p.type) \o U32(p.version) \o WireVersionPairs(p.pairs) \o p.tail

InVersionLoop == call.op = "ServerVersion::deserialize" /\ call.pc = "loop"

VersionReturned == call.op = "ServerVersion::deserialize" /\ call.pc = "returned"

\* The call, up to the first test of the loop condition.
VersionBegin(p) ==
    /\ call.op = "new"
    /\ LET header == VersionHeader(WireVersionLoopBytes(p)) IN
       IF header.ok
       THEN /\ call' = [op |-> "ServerVersion::deserialize", arg |-> p, pc |-> "loop",
                        version |-> header.val, extensions |-> Extensions_default,
                        de |-> header.rest]
            /\ ret' = Unit
       ELSE /\ call' = [op |-> "ServerVersion::deserialize", arg |-> p, pc |-> "returned",
                        version |-> 0, extensions |-> Extensions_default, de |-> <<>>]
            /\ ret' = header
    /\ UNCHANGED <<attrs, ser, arena, boxes, threads>>

\* The loop condition and, when bytes are left, one run of the body.
VersionIterate ==
    /\ InVersionLoop
    /\ IF call.de = <<>>
       THEN /\ ret' = Ok([version |-> call.version, extensions |-> call.extensions], <<>>)
            /\ call' = [call EXCEPT !.pc = "returned"]
       ELSE \E r \in {PairIteration(call.de, call.extensions)} :
                IF r.ok
                THEN /\ call' = [call EXCEPT !.de = r.rest, !.extensions = r.val]
                     /\ ret' = ret
                ELSE /\ call' = [call EXCEPT !.pc = "returned"]
                     /\ ret' = r
    /\ UNCHANGED <<attrs, ser, arena, boxes, threads>>

NextVersionLoop ==
    \/ \E p \in WireVersionLoops : VersionBegin(p)
    \/ VersionIterate

\* The function runs on once it is called: no step of it waits for anything.
SpecVersionLoop == Init /\ [][NextVersionLoop]_vars /\ WF_vars(VersionIterate)

\* One test of the loop condition: with no byte unread the function returns
\* its value; with bytes unread it returns an error or goes round with fewer
\* bytes unread.
IterationDecreases ==
    InVersionLoop =>
        IF call.de = <<>>
        THEN call'.pc = "returned" /\ ret'.ok
        ELSE \/ call'.pc = "returned" /\ ~ret'.ok
             \/ call'.pc = "loop" /\ Len(call'.de) < Len(call.de)

\* What the function returned is the result of the whole decode; it is a
\* value only for a packet of complete pairs, and the end-of-input error for
\* a version packet with a tail.
ReturnedAsDecoded ==
    VersionReturned =>
        /\ ret = ServerVersion_deserialize(WireVersionLoopBytes(call.arg))
        /\ ret.ok <=> call.arg.type = 2 /\ call.arg.tail = <<>>
        /\ call.arg.type = 2 /\ call.arg.tail # <<>> => ret = Err("Eof")
        /\ ret.ok => call.de = <<>>

\* C30: ServerVersion::deserialize terminates on every input: each iteration
\* of the pair loop returns an error or leaves strictly fewer bytes unread,
\* the loop ends with success exactly when no byte is unread, and a trailing
\* name without a complete revision makes the decode return an error.
C30_VersionDecodeTerminates ==
    /\ [][IterationDecreases]_vars
    /\ []ReturnedAsDecoded
    /\ InVersionLoop ~> VersionReturned

\* A packet with a skipped pair (a name that is not UTF-8), fsync revision 1
\* and then a name with half a length prefix has gone twice round the
\* loop and returned the end-of-input error on the third test.
C30_Witness ==
    /\ VersionReturned
    /\ call.arg.pairs = << << <<192, 128>>, <<49>> >>, <<EXT_NAME_FSYNC[1], <<49>>>> >>
    /\ call.arg.tail = Bytes(EXT_NAME_FSYNC[1]) \o <<0, 0>>
    /\ call.extensions.fsync
    /\ Len(call.de) = Len(call.arg.tail)
    /\ ret = Err("Eof")
====
